---- MODULE Spec2Model ----
(***************************************************************************)
(* Event registration, waitlist and payment state machine of the          *)
(* nareis-backend HTTP API (routes/events.ts, services/eventPaymentService *)
(* .ts, models/Event*.ts).  The database collections are sets of           *)
(* documents.  Every route handler is an operator from the database and    *)
(* the request to the database it leaves and the HTTP response it sends,   *)
(* and one action that applies it.                                         *)
(***************************************************************************)
EXTENDS Integers, FiniteSets, Sequences, Bags, TLC

VARIABLES users, events, regs, waitlist, intents, now, inflight, feedback,
          members, sessions, paymentHistory

vars == <<users, events, regs, waitlist, intents, now, inflight, feedback,
         members, sessions, paymentHistory>>

(***************************************************************************)
(* Bounds of the model.                                                    *)
(***************************************************************************)
\* the clock runs from 0 to MaxNow (hours)
MaxNow == 25
\* one Tick of the clock (hours)
StepHours == 25
\* largest maxAttendees / waitlistCapacity an event of Init is given
MaxCapacity == 1
\* number of payment intents Stripe is asked to create
MaxIntents == 1

\* an optional Date that is not set
NoDate == 0 - 1
\* waitlistEntry.expiresAt = Date.now() + 24 * 60 * 60 * 1000, in hours
OfferHours == 24
\* an event without endDate ends 24 hours after its start
DefaultEventHours == 24
\* event.price of the non-free events of Init
Price == 2

\* req.user.role, User schema enum ['member', 'admin']
Role(u) == IF u = "A" THEN "admin" ELSE "member"

(***************************************************************************)
(* Documents.                                                              *)
(***************************************************************************)
\* Mongo's _id, abstracted to the least index free among the documents of
\* the same (eventId, userId) pair: two documents are never identified.
NewId(rows, eventId, userId) ==
    1 + Cardinality({r \in rows : r.eventId = eventId /\ r.userId = userId})

\* new EventRegistration({...}) with the schema defaults
NewRegistration(R, eventId, userId, status, registrationType, paymentStatus, paymentAmount) ==
    [id |-> NewId(R, eventId, userId), eventId |-> eventId, userId |-> userId,
     status |-> status, registrationType |-> registrationType,
     paymentStatus |-> paymentStatus, paymentAmount |-> paymentAmount,
     stripePaymentIntentId |-> 0, refundAmount |-> 0, refundedAt |-> NoDate,
     checkedIn |-> FALSE]

\* new EventWaitlist({eventId, userId, position}) with the schema defaults
NewWaitlistEntry(W, eventId, userId, position) ==
    [id |-> NewId(W, eventId, userId), eventId |-> eventId, userId |-> userId,
     position |-> position, status |-> "waiting", notified |-> FALSE,
     expiresAt |-> NoDate]

\* a collection without its unique index
UniqueIndexViolated_Off(rows, doc) == FALSE

\* the unique index {eventId: 1, userId: 1} of a collection
UniqueIndexViolated(rows, doc) ==
    \E r \in rows : r.eventId = doc.eventId /\ r.userId = doc.userId

\* doc.save() of a new document: insert, or E11000 on the unique index
InsertDoc(rows, doc) ==
    IF UniqueIndexViolated(rows, doc)
    THEN [error |-> "E11000 duplicate key error", rows |-> rows]
    ELSE [error |-> "", rows |-> rows \cup {doc}]

\* doc.save() of a loaded document
ReplaceDoc(rows, old, new) == (rows \ {old}) \cup {new}

\* a count that forgets the status filter
CountRegistered_AnyStatus(R, eventId) ==
    Cardinality({r \in R : r.eventId = eventId})

\* EventRegistration.countDocuments({eventId, status: 'registered'})
CountRegistered(R, eventId) ==
    Cardinality({r \in R : r.eventId = eventId /\ r.status = "registered"})

\* EventWaitlist.countDocuments({eventId, status: 'waiting'})
CountWaiting(W, eventId) ==
    Cardinality({w \in W : w.eventId = eventId /\ w.status = "waiting"})

\* EventWaitlist.updateMany({eventId, position: {$gt: position}, status: 'waiting'},
\*                          {$inc: {position: -1}})
DecrementAfter(W, eventId, position) ==
    {IF w.eventId = eventId /\ w.position > position /\ w.status = "waiting"
     THEN [w EXCEPT !.position = w.position - 1] ELSE w : w \in W}

(***************************************************************************)
(* Stripe (the hosted payment processor).                                  *)
(***************************************************************************)
\* stripe.paymentIntents.create: a new intent; its id is its index
StripeCreateIntent(I, amount) ==
    Append(I, [status |-> "requires_payment_method", amount |-> amount,
               amountRefunded |-> 0])

\* stripe.refunds.create({payment_intent, amount}): Stripe refuses a refund
\* of an unpaid intent or of more than what is left of the charge
StripeRefund(I, paymentIntentId, amount) ==
    IF paymentIntentId \notin DOMAIN I
    THEN [error |-> "No such payment_intent", intents |-> I]
    ELSE IF I[paymentIntentId].status # "succeeded"
    THEN [error |-> "This PaymentIntent does not have a successful charge to refund", intents |-> I]
    ELSE IF I[paymentIntentId].amountRefunded + amount > I[paymentIntentId].amount
    THEN [error |-> "Refund amount is greater than unrefunded amount on charge", intents |-> I]
    ELSE [error |-> "",
          intents |-> [I EXCEPT ![paymentIntentId].amountRefunded = @ + amount]]

(***************************************************************************)
(* EventPaymentService.  A service result is a record: error is the        *)
(* message of the Error thrown ("" when the call returns), and the other   *)
(* fields are the collections as the call leaves them.                     *)
(***************************************************************************)
RegistrationId(r) == <<r.eventId, r.userId, r.id>>

createPaymentIntent(R, I, eventId, userId, registrationId) ==
    LET event == events[eventId]
        found == {r \in R : RegistrationId(r) = registrationId}
        Fail(msg) == [error |-> msg, regs |-> R, intents |-> I, paymentIntentId |-> 0]
    IN  IF event.isFree THEN Fail("This event is free")
        ELSE IF event.price <= 0 THEN Fail("Invalid event price")
        ELSE IF found = {} THEN Fail("Registration not found")
        ELSE LET registration == CHOOSE r \in found : TRUE
                 totalAmount == event.price
             IN  IF registration.userId # userId THEN Fail("Unauthorized")
                 ELSE IF registration.paymentStatus = "completed"
                 THEN Fail("Payment already completed")
                 ELSE [error |-> "",
                       regs |-> ReplaceDoc(R, registration,
                                  [registration EXCEPT
                                     !.stripePaymentIntentId = Len(I) + 1,
                                     !.paymentAmount = totalAmount]),
                       intents |-> StripeCreateIntent(I, totalAmount),
                       paymentIntentId |-> Len(I) + 1]

confirmPayment(R, I, paymentIntentId) ==
    LET found == {r \in R : r.stripePaymentIntentId = paymentIntentId}
        Fail(msg) == [error |-> msg, regs |-> R]
    IN  IF paymentIntentId \notin DOMAIN I THEN Fail("No such payment_intent")
        ELSE IF I[paymentIntentId].status # "succeeded"
        THEN Fail("Payment not successful")
        ELSE IF found = {} THEN Fail("Registration not found")
        ELSE LET registration == CHOOSE r \in found : TRUE
             IN  IF registration.paymentStatus = "completed"
                 THEN [error |-> "", regs |-> R]
                 ELSE [error |-> "",
                       regs |-> ReplaceDoc(R, registration,
                                  [registration EXCEPT
                                     !.paymentStatus = "completed",
                                     !.status = "registered"])]

\* a refund policy without the deadline
PastCancellationDeadline_Never(event) == FALSE

\* event.cancellationDeadline && new Date() > event.cancellationDeadline
PastCancellationDeadline(event) ==
    event.cancellationDeadline # NoDate /\ now > event.cancellationDeadline

processRefund(R, I, registrationId, refundAmount) ==
    LET found == {r \in R : RegistrationId(r) = registrationId}
        Fail(msg) == [error |-> msg, regs |-> R, intents |-> I]
    IN  IF found = {} THEN Fail("Registration not found")
        ELSE LET registration == CHOOSE r \in found : TRUE
                 event == events[registration.eventId]
                 amountToRefund == IF refundAmount # 0 THEN refundAmount
                                   ELSE registration.paymentAmount
                 refund == StripeRefund(I, registration.stripePaymentIntentId,
                                        amountToRefund)
             IN  IF registration.paymentStatus # "completed"
                 THEN Fail("No completed payment to refund")
                 ELSE IF registration.stripePaymentIntentId = 0
                 THEN Fail("No payment intent found")
                 ELSE IF PastCancellationDeadline(event)
                 THEN Fail("Past cancellation deadline. Refunds are not available.")
                 ELSE IF amountToRefund <= 0 THEN Fail("Invalid refund amount")
                 ELSE IF refund.error # "" THEN Fail(refund.error)
                 ELSE [error |-> "",
                       regs |-> ReplaceDoc(R, registration,
                                  [registration EXCEPT
                                     !.paymentStatus = "refunded",
                                     !.refundAmount = amountToRefund,
                                     !.refundedAt = now]),
                       intents |-> refund.intents]

(***************************************************************************)
(* WaitlistService.                                                        *)
(***************************************************************************)
\* the capacity check with > for >=
EventFull_OffByOne(event, currentRegistrations) ==
    event.maxAttendees # 0 /\ currentRegistrations > event.maxAttendees

\* event.maxAttendees && currentRegistrations >= event.maxAttendees
EventFull(event, currentRegistrations) ==
    event.maxAttendees # 0 /\ currentRegistrations >= event.maxAttendees

\* the waitlist capacity check with > for >=
WaitlistFull_OffByOne(event, currentCount) ==
    event.waitlistCapacity # 0 /\ currentCount > event.waitlistCapacity

\* event.waitlistCapacity && currentCount >= event.waitlistCapacity
WaitlistFull(event, currentCount) ==
    event.waitlistCapacity # 0 /\ currentCount >= event.waitlistCapacity

joinWaitlist(R, W, eventId, userId) ==
    LET event == events[eventId]
        existing == {w \in W : w.eventId = eventId /\ w.userId = userId}
        registration == {r \in R : /\ r.eventId = eventId /\ r.userId = userId
                                   /\ r.status = "registered"}
        currentCount == CountWaiting(W, eventId)
        position == currentCount + 1
        saved == InsertDoc(W, NewWaitlistEntry(W, eventId, userId, position))
        Fail(msg) == [error |-> msg, waitlist |-> W, position |-> 0]
    IN  IF ~event.waitlistEnabled THEN Fail("Waitlist is not enabled for this event")
        ELSE IF existing # {} THEN Fail("Already on waitlist")
        ELSE IF registration # {} THEN Fail("Already registered for this event")
        ELSE IF WaitlistFull(event, currentCount) THEN Fail("Waitlist is full")
        ELSE IF saved.error # "" THEN Fail(saved.error)
        ELSE [error |-> "", waitlist |-> saved.rows, position |-> position]

\* a removal that leaves the positions behind it as they are
leaveWaitlist_NoRenumber(W, eventId, userId) ==
    LET found == {w \in W : /\ w.eventId = eventId /\ w.userId = userId
                            /\ w.status = "waiting"}
    IN  IF found = {} THEN [error |-> "Not on waitlist", waitlist |-> W]
        ELSE [error |-> "", waitlist |-> W \ found]

leaveWaitlist(W, eventId, userId) ==
    LET found == {w \in W : /\ w.eventId = eventId /\ w.userId = userId
                            /\ w.status = "waiting"}
    IN  IF found = {} THEN [error |-> "Not on waitlist", waitlist |-> W]
        ELSE LET waitlistEntry == CHOOSE w \in found : TRUE
             IN  [error |-> "",
                  waitlist |-> DecrementAfter(W \ {waitlistEntry}, eventId,
                                              waitlistEntry.position)]

\* a promotion that sets the status and forgets the offer's expiry
promoteFromWaitlist_NoExpiry(R, W, eventId, userId) ==
    LET found == {w \in W : /\ w.eventId = eventId /\ w.userId = userId
                            /\ w.status = "waiting"}
    IN  IF found = {} THEN [error |-> "User not on waitlist", waitlist |-> W]
        ELSE IF EventFull(events[eventId], CountRegistered(R, eventId))
        THEN [error |-> "Event is still full", waitlist |-> W]
        ELSE [error |-> "",
              waitlist |-> {IF w \in found
                            THEN [w EXCEPT !.status = "offered", !.notified = TRUE]
                            ELSE w : w \in W}]

promoteFromWaitlist(R, W, eventId, userId) ==
    LET found == {w \in W : /\ w.eventId = eventId /\ w.userId = userId
                            /\ w.status = "waiting"}
        event == events[eventId]
        currentRegistrations == CountRegistered(R, eventId)
    IN  IF found = {} THEN [error |-> "User not on waitlist", waitlist |-> W]
        ELSE IF EventFull(event, currentRegistrations)
        THEN [error |-> "Event is still full", waitlist |-> W]
        ELSE LET waitlistEntry == CHOOSE w \in found : TRUE
             IN  [error |-> "",
                  waitlist |-> ReplaceDoc(W, waitlistEntry,
                                 [waitlistEntry EXCEPT
                                    !.status = "offered",
                                    !.notified = TRUE,
                                    !.expiresAt = now + OfferHours])]

\* an offer that never lapses
OfferExpired_Never(waitlistEntry) == FALSE

\* waitlistEntry.expiresAt && new Date() > waitlistEntry.expiresAt
OfferExpired(waitlistEntry) ==
    waitlistEntry.expiresAt # NoDate /\ now > waitlistEntry.expiresAt

acceptOffer(R, W, eventId, userId) ==
    LET found == {w \in W : /\ w.eventId = eventId /\ w.userId = userId
                            /\ w.status = "offered"}
        event == events[eventId]
        currentRegistrations == CountRegistered(R, eventId)
        Fail(msg) == [error |-> msg, regs |-> R, waitlist |-> W]
    IN  IF found = {} THEN Fail("No active offer found")
        ELSE LET waitlistEntry == CHOOSE w \in found : TRUE
                 saved == InsertDoc(R, NewRegistration(R, eventId, userId,
                              "registered", "waitlist",
                              IF event.isFree THEN "not_required" ELSE "pending", 0))
             IN  IF OfferExpired(waitlistEntry)
                 THEN [error |-> "Offer has expired", regs |-> R,
                       waitlist |-> ReplaceDoc(W, waitlistEntry,
                                      [waitlistEntry EXCEPT !.status = "expired"])]
                 ELSE IF EventFull(event, currentRegistrations)
                 THEN Fail("Event is full")
                 ELSE IF saved.error # "" THEN Fail(saved.error)
                 ELSE [error |-> "", regs |-> saved.rows,
                       waitlist |-> DecrementAfter(
                                      ReplaceDoc(W, waitlistEntry,
                                        [waitlistEntry EXCEPT !.status = "accepted"]),
                                      eventId, waitlistEntry.position)]

(***************************************************************************)
(* Route handlers (routes/events.ts).  db is the database a request finds: *)
(* [regs, waitlist, intents].  A handler's result is the database it       *)
(* leaves and its response res.status(code).json({data, error}): error is  *)
(* "" when the body carries error: null, message is data.message.          *)
(***************************************************************************)
Db == [regs |-> regs, waitlist |-> waitlist, intents |-> intents]

Result(R, W, I, code, error, message) ==
    [regs |-> R, waitlist |-> W, intents |-> I,
     code |-> code, error |-> error, message |-> message]

\* a response that leaves the database as it found it
Reply(db, code, error, message) ==
    Result(db.regs, db.waitlist, db.intents, code, error, message)

\* adminMiddleware
IsAdmin(u) == Role(u) = "admin"

\* POST /:id/register
PostRegister(db, eventId, userId) ==
    LET event == events[eventId]
        existing == {r \in db.regs : r.eventId = eventId /\ r.userId = userId}
        existingRegistration == CHOOSE r \in existing : TRUE
        currentRegistrations == CountRegistered(db.regs, eventId)
        joined == joinWaitlist(db.regs, db.waitlist, eventId, userId)
        saved == InsertDoc(db.regs, NewRegistration(db.regs, eventId, userId,
                     IF event.requiresApproval THEN "pending" ELSE "registered",
                     "regular",
                     IF event.isFree THEN "not_required" ELSE "pending",
                     event.price))
    IN  IF event.status \in {"completed", "cancelled"}
        THEN Reply(db, 400, "Event is not open for registration", "")
        ELSE IF event.memberOnly /\ Role(userId) \notin {"member", "admin"}
        THEN Reply(db, 403, "This event is for members only", "")
        ELSE IF event.registrationDeadline # NoDate
                /\ now > event.registrationDeadline
        THEN Reply(db, 400, "Registration deadline has passed", "")
        ELSE IF existing # {}
        THEN IF existingRegistration.status = "cancelled"
             THEN Result(ReplaceDoc(db.regs, existingRegistration,
                           [existingRegistration EXCEPT !.status =
                              IF event.requiresApproval THEN "pending"
                              ELSE "registered"]),
                         db.waitlist, db.intents, 200, "",
                         "Registration reactivated successfully")
             ELSE Reply(db, 400, "Already registered for this event", "")
        ELSE IF EventFull(event, currentRegistrations)
        THEN IF event.waitlistEnabled
             THEN IF joined.error = ""
                  THEN Result(db.regs, joined.waitlist, db.intents, 200, "",
                         "Event is full. You have been added to the waitlist.")
                  ELSE Reply(db, 400, joined.error, "")
             ELSE Reply(db, 400, "Event is full and waitlist is not available", "")
        ELSE IF saved.error # "" THEN Reply(db, 500, saved.error, "")
        ELSE Result(saved.rows, db.waitlist, db.intents, 201, "",
                    IF event.requiresApproval
                    THEN "Registration submitted for approval"
                    ELSE "Successfully registered for event")

\* The 'waiting' entries of the event with the least position: what
\* EventWaitlist.findOne({eventId, status: 'waiting'}).sort({position: 1})
\* may return (any of them when several share the least position).
NextInLine(W, eventId) ==
    {w \in W : /\ w.eventId = eventId /\ w.status = "waiting"
               /\ \A v \in W : (v.eventId = eventId /\ v.status = "waiting")
                                 => w.position <= v.position}

\* a cancel handler that lets the refund's error end the request
DeleteRegisterWith_RefundAborts(db, eventId, userId, nextInLine) ==
    LET event == events[eventId]
        found == {r \in db.regs : /\ r.eventId = eventId /\ r.userId = userId
                                  /\ r.status = "registered"}
        registration == CHOOSE r \in found : TRUE
        wantsRefund == /\ registration.paymentStatus = "completed"
                       /\ registration.stripePaymentIntentId # 0
        refund == processRefund(db.regs, db.intents, RegistrationId(registration), 0)
        refundProcessed == wantsRefund /\ refund.error = ""
        afterRefund == IF refundProcessed THEN refund.regs ELSE db.regs
        \* registration.save() writes the paths the handler modified
        afterSave == {IF RegistrationId(r) = RegistrationId(registration)
                      THEN [r EXCEPT !.status = "cancelled"] ELSE r
                      : r \in afterRefund}
    IN  IF found = {} THEN Reply(db, 404, "Registration not found", "")
        ELSE IF wantsRefund /\ refund.error # "" THEN Reply(db, 500, refund.error, "")
        ELSE Result(afterSave,
                    IF event.waitlistEnabled /\ NextInLine(db.waitlist, eventId) # {}
                    THEN promoteFromWaitlist(afterSave, db.waitlist, eventId,
                                             nextInLine.userId).waitlist
                    ELSE db.waitlist,
                    IF refundProcessed THEN refund.intents ELSE db.intents,
                    200, "",
                    IF refundProcessed
                    THEN "Registration cancelled successfully, refundProcessed: true"
                    ELSE "Registration cancelled successfully, refundProcessed: false")

\* DELETE /:id/register, nextInLine being the entry its findOne returns
\* (used only when there is one)
DeleteRegisterWith(db, eventId, userId, nextInLine) ==
    LET event == events[eventId]
        found == {r \in db.regs : /\ r.eventId = eventId /\ r.userId = userId
                                  /\ r.status = "registered"}
        registration == CHOOSE r \in found : TRUE
        wantsRefund == /\ registration.paymentStatus = "completed"
                       /\ registration.stripePaymentIntentId # 0
        refund == processRefund(db.regs, db.intents, RegistrationId(registration), 0)
        refundProcessed == wantsRefund /\ refund.error = ""
        afterRefund == IF refundProcessed THEN refund.regs ELSE db.regs
        \* registration.save() writes the paths the handler modified
        afterSave == {IF RegistrationId(r) = RegistrationId(registration)
                      THEN [r EXCEPT !.status = "cancelled"] ELSE r
                      : r \in afterRefund}
    IN  IF found = {} THEN Reply(db, 404, "Registration not found", "")
        ELSE Result(afterSave,
                    IF event.waitlistEnabled /\ NextInLine(db.waitlist, eventId) # {}
                    THEN promoteFromWaitlist(afterSave, db.waitlist, eventId,
                                             nextInLine.userId).waitlist
                    ELSE db.waitlist,
                    IF refundProcessed THEN refund.intents ELSE db.intents,
                    200, "",
                    IF refundProcessed
                    THEN "Registration cancelled successfully, refundProcessed: true"
                    ELSE "Registration cancelled successfully, refundProcessed: false")

\* DELETE /:id/register: every result the handler can produce
DeleteRegister(db, eventId, userId) ==
    IF NextInLine(db.waitlist, eventId) = {}
    THEN {DeleteRegisterWith(db, eventId, userId, [userId |-> userId])}
    ELSE {DeleteRegisterWith(db, eventId, userId, n) :
            n \in NextInLine(db.waitlist, eventId)}

\* POST /:id/waitlist
PostWaitlist(db, eventId, userId) ==
    LET joined == joinWaitlist(db.regs, db.waitlist, eventId, userId)
    IN  IF joined.error = ""
        THEN Result(db.regs, joined.waitlist, db.intents, 201, "",
                    "Added to waitlist successfully")
        ELSE Reply(db, 400, joined.error, "")

\* DELETE /:id/waitlist
DeleteWaitlist(db, eventId, userId) ==
    LET left == leaveWaitlist(db.waitlist, eventId, userId)
    IN  IF left.error = ""
        THEN Result(db.regs, left.waitlist, db.intents, 200, "",
                    "Removed from waitlist")
        ELSE Result(db.regs, left.waitlist, db.intents, 400, left.error, "")

\* POST /:id/waitlist/accept
PostWaitlistAccept(db, eventId, userId) ==
    LET accepted == acceptOffer(db.regs, db.waitlist, eventId, userId)
    IN  IF accepted.error = ""
        THEN Result(accepted.regs, accepted.waitlist, db.intents, 200, "",
                    "Waitlist offer accepted. You are now registered!")
        ELSE Result(accepted.regs, accepted.waitlist, db.intents, 400,
                    accepted.error, "")

\* POST /:id/waitlist/:userId/promote (admin only); userId is the promoted user
PostWaitlistPromote(db, eventId, admin, userId) ==
    LET promoted == promoteFromWaitlist(db.regs, db.waitlist, eventId, userId)
    IN  IF ~IsAdmin(admin)
        THEN Reply(db, 403, "Access denied. Admin privileges required.", "")
        ELSE IF promoted.error = ""
        THEN Result(db.regs, promoted.waitlist, db.intents, 200, "",
                    "User promoted from waitlist and notified")
        ELSE Result(db.regs, promoted.waitlist, db.intents, 400, promoted.error, "")

\* POST /:id/payment
PostPayment(db, eventId, userId, registrationId) ==
    LET created == createPaymentIntent(db.regs, db.intents, eventId, userId,
                                       registrationId)
    IN  IF created.error = ""
        THEN Result(created.regs, db.waitlist, created.intents, 200, "", "")
        ELSE Result(created.regs, db.waitlist, created.intents, 400,
                    created.error, "")

\* POST /:id/payment/confirm
PostPaymentConfirm(db, paymentIntentId) ==
    LET confirmed == confirmPayment(db.regs, db.intents, paymentIntentId)
    IN  IF confirmed.error = ""
        THEN Result(confirmed.regs, db.waitlist, db.intents, 200, "",
                    "Payment confirmed successfully")
        ELSE Result(confirmed.regs, db.waitlist, db.intents, 400,
                    confirmed.error, "")

\* POST /:id/refund/:registrationId (admin only); amount is req.body.amount,
\* 0 when the body carries none
PostRefund(db, admin, registrationId, amount) ==
    LET refunded == processRefund(db.regs, db.intents, registrationId, amount)
    IN  IF ~IsAdmin(admin)
        THEN Reply(db, 403, "Access denied. Admin privileges required.", "")
        ELSE IF refunded.error = ""
        THEN Result(refunded.regs, db.waitlist, refunded.intents, 200, "",
                    "Refund processed successfully")
        ELSE Result(refunded.regs, db.waitlist, refunded.intents, 400,
                    refunded.error, "")

\* POST /:id/checkin
PostCheckin(db, eventId, userId) ==
    LET event == events[eventId]
        found == {r \in db.regs : /\ r.eventId = eventId /\ r.userId = userId
                                  /\ r.status = "registered"}
        registration == CHOOSE r \in found : TRUE
    IN  IF found = {} THEN Reply(db, 404, "Registration not found or not confirmed", "")
        ELSE IF registration.checkedIn THEN Reply(db, 400, "Already checked in", "")
        ELSE IF now < event.startDate
        THEN Reply(db, 400, "Check-in not yet available", "")
        ELSE Result(ReplaceDoc(db.regs, registration,
                               [registration EXCEPT !.checkedIn = TRUE]),
                    db.waitlist, db.intents, 200, "", "Checked in successfully")

\* the registration's confirmationCode: one code per registration
ConfirmationCode(r) == r.userId

\* POST /:id/checkin/:code (admin only)
PostCheckinCode(db, eventId, admin, code) ==
    LET found == {r \in db.regs : r.eventId = eventId /\ ConfirmationCode(r) = code}
        registration == CHOOSE r \in found : TRUE
    IN  IF ~IsAdmin(admin)
        THEN Reply(db, 403, "Access denied. Admin privileges required.", "")
        ELSE IF found = {} THEN Reply(db, 404, "Invalid confirmation code", "")
        ELSE IF registration.status # "registered"
        THEN Reply(db, 400, "Cannot check in. Registration status", "")
        ELSE IF registration.checkedIn
        THEN Reply(db, 200, "", "User already checked in")
        ELSE Result(ReplaceDoc(db.regs, registration,
                               [registration EXCEPT !.checkedIn = TRUE]),
                    db.waitlist, db.intents, 200, "", "User checked in successfully")

\* new EventFeedback({eventId, userId, rating, ...})
NewFeedback(F, eventId, userId, rating) ==
    [id |-> NewId(F, eventId, userId), eventId |-> eventId, userId |-> userId,
     rating |-> rating]

\* a feedback handler that accepts a check-in at any event
PostFeedback_AnyEvent(R, F, eventId, userId, rating) ==
    LET registration == {r \in R : r.userId = userId /\ r.checkedIn}
        existingFeedback == {f \in F : f.eventId = eventId /\ f.userId = userId}
        saved == InsertDoc(F, NewFeedback(F, eventId, userId, rating))
        Send(code, error) == [feedback |-> F, code |-> code, error |-> error]
    IN  IF rating = 0 \/ rating < 1 \/ rating > 5
        THEN Send(400, "Rating must be between 1 and 5")
        ELSE IF registration = {}
        THEN Send(403, "Only attendees who checked in can provide feedback")
        ELSE IF existingFeedback # {}
        THEN Send(400, "Feedback already submitted for this event")
        ELSE IF saved.error # "" THEN Send(500, saved.error)
        ELSE [feedback |-> saved.rows, code |-> 201, error |-> ""]

\* a feedback handler that replaces the feedback already submitted
PostFeedback_Overwrites(R, F, eventId, userId, rating) ==
    LET registration == {r \in R : /\ r.eventId = eventId /\ r.userId = userId
                                   /\ r.checkedIn}
        existingFeedback == {f \in F : f.eventId = eventId /\ f.userId = userId}
        kept == F \ existingFeedback
        Send(code, error) == [feedback |-> F, code |-> code, error |-> error]
    IN  IF rating = 0 \/ rating < 1 \/ rating > 5
        THEN Send(400, "Rating must be between 1 and 5")
        ELSE IF registration = {}
        THEN Send(403, "Only attendees who checked in can provide feedback")
        ELSE [feedback |-> kept \cup {NewFeedback(kept, eventId, userId, rating)},
              code |-> 201, error |-> ""]

\* POST /:id/feedback; rating is req.body.rating, 0 when the body has none.
\* The result carries the EventFeedback collection as the request leaves it.
PostFeedback(R, F, eventId, userId, rating) ==
    LET registration == {r \in R : /\ r.eventId = eventId /\ r.userId = userId
                                   /\ r.checkedIn}
        existingFeedback == {f \in F : f.eventId = eventId /\ f.userId = userId}
        saved == InsertDoc(F, NewFeedback(F, eventId, userId, rating))
        Send(code, error) == [feedback |-> F, code |-> code, error |-> error]
    IN  IF rating = 0 \/ rating < 1 \/ rating > 5
        THEN Send(400, "Rating must be between 1 and 5")
        ELSE IF registration = {}
        THEN Send(403, "Only attendees who checked in can provide feedback")
        ELSE IF existingFeedback # {}
        THEN Send(400, "Feedback already submitted for this event")
        ELSE IF saved.error # "" THEN Send(500, saved.error)
        ELSE [feedback |-> saved.rows, code |-> 201, error |-> ""]

(***************************************************************************)
(* Actions: a request is handled from its first line to its response.      *)
(***************************************************************************)
Apply(result) ==
    /\ regs' = result.regs
    /\ waitlist' = result.waitlist
    /\ intents' = result.intents
    /\ UNCHANGED <<users, events, now, inflight, feedback,
                 members, sessions, paymentHistory>>

Register(eventId, userId) == Apply(PostRegister(Db, eventId, userId))

CancelRegistration(eventId, userId) ==
    \E result \in DeleteRegister(Db, eventId, userId) : Apply(result)

JoinWaitlist(eventId, userId) == Apply(PostWaitlist(Db, eventId, userId))

LeaveWaitlist(eventId, userId) == Apply(DeleteWaitlist(Db, eventId, userId))

AcceptOffer(eventId, userId) == Apply(PostWaitlistAccept(Db, eventId, userId))

PromoteFromWaitlist(eventId, admin, userId) ==
    Apply(PostWaitlistPromote(Db, eventId, admin, userId))

CreatePayment(eventId, userId, registrationId) ==
    /\ Len(intents) < MaxIntents
    /\ Apply(PostPayment(Db, eventId, userId, registrationId))

ConfirmPayment(paymentIntentId) == Apply(PostPaymentConfirm(Db, paymentIntentId))

Refund(admin, registrationId, amount) ==
    Apply(PostRefund(Db, admin, registrationId, amount))

CheckIn(eventId, userId) == Apply(PostCheckin(Db, eventId, userId))

AdminCheckIn(eventId, admin, code) ==
    Apply(PostCheckinCode(Db, eventId, admin, code))

SubmitFeedback(eventId, userId, rating) ==
    /\ feedback' = PostFeedback(regs, feedback, eventId, userId, rating).feedback
    /\ UNCHANGED <<users, events, regs, waitlist, intents, now, inflight,
                 members, sessions, paymentHistory>>

\* The customer pays the intent at Stripe (the hosted payment form).
StripePay(paymentIntentId) ==
    /\ paymentIntentId \in DOMAIN intents
    /\ intents[paymentIntentId].status # "succeeded"
    /\ intents' = [intents EXCEPT ![paymentIntentId].status = "succeeded"]
    /\ UNCHANGED <<users, events, regs, waitlist, now, inflight, feedback,
                 members, sessions, paymentHistory>>

\* Time passes.
Tick ==
    /\ now + StepHours <= MaxNow
    /\ now' = now + StepHours
    /\ UNCHANGED <<users, events, regs, waitlist, intents, inflight, feedback,
                 members, sessions, paymentHistory>>

(***************************************************************************)
(* The stored Event documents.  No handler of this specification writes    *)
(* them; Init draws them from the values the schema admits.                *)
(***************************************************************************)
EventConfigs ==
    {c \in [status : {"upcoming", "cancelled"}, memberOnly : {FALSE},
            registrationDeadline : {NoDate, 0}, cancellationDeadline : {NoDate, 0},
            maxAttendees : 0..MaxCapacity, waitlistEnabled : BOOLEAN,
            waitlistCapacity : 0..MaxCapacity, isFree : BOOLEAN,
            price : {Price}, requiresApproval : BOOLEAN,
            startDate : {0}, endDate : {NoDate}] :
        \* waitlistCapacity is read only when the waitlist is enabled
        /\ ~c.waitlistEnabled => c.waitlistCapacity = 0
        \* the limit of the waitlist is independent of the price: it is drawn
        \* on free events
        /\ ~c.isFree => c.waitlistCapacity = 0
        \* cancellationDeadline is read only when a payment is refunded
        /\ c.isFree => c.cancellationDeadline = NoDate
        \* a closed event, or one with a deadline, is drawn with the other
        \* options at one value and with one of the three at a time
        /\ (\/ c.status # "upcoming" \/ c.registrationDeadline # NoDate
            \/ c.cancellationDeadline # NoDate)
              => /\ c.maxAttendees = MaxCapacity /\ c.waitlistEnabled
                 /\ c.waitlistCapacity = 0 /\ ~c.requiresApproval
                 /\ Cardinality({1 : x \in {c.status} \ {"upcoming"}})
                    + Cardinality({1 : x \in {c.registrationDeadline} \ {NoDate}})
                    + Cardinality({1 : x \in {c.cancellationDeadline} \ {NoDate}}) = 1}

AllUsers == {"A", "B", "C"}
AllEvents == {"e1", "e2"}
RegistrationIds == AllEvents \X AllUsers \X {1}

Init ==
    /\ users = {"A", "B"}
    /\ events \in [{"e1"} -> EventConfigs]
    /\ regs = {}
    /\ waitlist = {}
    /\ intents = <<>>
    /\ now = 0
    /\ inflight = EmptyBag
    /\ feedback = {}
    /\ members = <<>>
    /\ sessions = <<>>
    /\ paymentHistory = <<>>

Next ==
    \/ \E e \in DOMAIN events, u \in users : Register(e, u)
    \/ \E e \in DOMAIN events, u \in users : CancelRegistration(e, u)
    \/ \E e \in DOMAIN events, u \in users : JoinWaitlist(e, u)
    \/ \E e \in DOMAIN events, u \in users : LeaveWaitlist(e, u)
    \/ \E e \in DOMAIN events, u \in users : AcceptOffer(e, u)
    \/ \E e \in DOMAIN events, a \in users, u \in users : PromoteFromWaitlist(e, a, u)
    \/ \E e \in DOMAIN events :
          \E u \in users, rid \in {e} \X AllUsers \X {1} : CreatePayment(e, u, rid)
    \/ \E i \in 1..MaxIntents : ConfirmPayment(i)
    \/ \E i \in 1..MaxIntents : StripePay(i)
    \/ Tick

Spec == Init /\ [][Next]_vars

(***************************************************************************)
(* The waitlists of two events and three users: the waitlist requests      *)
(* alone, on events that take every registration.                          *)
(***************************************************************************)
WaitlistEventConfigs ==
    {c \in EventConfigs :
        /\ c.status = "upcoming" /\ c.registrationDeadline = NoDate
        /\ c.isFree /\ ~c.requiresApproval /\ c.waitlistEnabled
        /\ c.maxAttendees = 0 /\ c.waitlistCapacity = 0}

WaitlistInit ==
    /\ users = AllUsers
    /\ events \in [AllEvents -> WaitlistEventConfigs]
    /\ regs = {}
    /\ waitlist = {}
    /\ intents = <<>>
    /\ now = 0
    /\ inflight = EmptyBag
    /\ feedback = {}
    /\ members = <<>>
    /\ sessions = <<>>
    /\ paymentHistory = <<>>

WaitlistNext ==
    \/ \E e \in DOMAIN events, u \in users : JoinWaitlist(e, u)
    \/ \E e \in DOMAIN events, u \in users : LeaveWaitlist(e, u)
    \/ \E e \in DOMAIN events, a \in users, u \in users : PromoteFromWaitlist(e, a, u)
    \/ \E e \in DOMAIN events, u \in users : AcceptOffer(e, u)

WaitlistSpec == WaitlistInit /\ [][WaitlistNext]_vars

(***************************************************************************)
(* The status of an event: computed from the dates when it is read and     *)
(* when the document is saved.                                             *)
(***************************************************************************)
\* a status read from the stored field
calculateEventStatus_Stored(event) == event.status

\* calculateEventStatus(event): the status GET / and GET /:id return
calculateEventStatus(event) ==
    LET startDate == event.startDate
        endDate == IF event.endDate # NoDate THEN event.endDate
                   ELSE startDate + DefaultEventHours
    IN  IF event.status = "cancelled" THEN "cancelled"
        ELSE IF now < startDate THEN "upcoming"
        ELSE IF now >= startDate /\ now <= endDate THEN "ongoing"
        ELSE IF now > endDate THEN "completed"
        ELSE event.status

\* eventSchema.methods.updateAutoStatus: the document with its status set
updateAutoStatus(event) ==
    LET startDate == event.startDate
        endDate == IF event.endDate # NoDate THEN event.endDate
                   ELSE startDate + DefaultEventHours
    IN  IF event.status = "cancelled" THEN event
        ELSE IF now < startDate THEN [event EXCEPT !.status = "upcoming"]
        ELSE IF now >= startDate /\ now <= endDate
        THEN [event EXCEPT !.status = "ongoing"]
        ELSE IF now > endDate THEN [event EXCEPT !.status = "completed"]
        ELSE event

\* eventSchema.pre('save'); statusModified is this.isModified('status')
PreSave(event, statusModified) ==
    IF statusModified /\ event.status = "cancelled" THEN event
    ELSE updateAutoStatus(event)

\* Text is a sequence of characters; MaxTitleLen bounds the titles drawn.
MaxTitleLen == 2
Chars == {"A", "a", " ", "-", "!"}
WordChars == {"A", "a"}
\* a field the request body does not carry
Undefined == <<"undefined">>
\* a slug is the text before the last hyphen and the timestamp after it;
\* NoSlug is the slug of a document that has none
NoSlug == [base |-> <<>>, timestamp |-> NoDate]

ToLowerCase(text) == [i \in DOMAIN text |-> IF text[i] = "A" THEN "a" ELSE text[i]]

RECURSIVE DropRun(_, _)
DropRun(text, T) ==
    IF text # <<>> /\ Head(text) \in T THEN DropRun(Tail(text), T) ELSE text

\* text.replace(/T+/g, r): every maximal run of characters of T becomes r
RECURSIVE ReplaceRuns(_, _, _)
ReplaceRuns(text, T, r) ==
    IF text = <<>> THEN <<>>
    ELSE IF Head(text) \in T THEN <<r>> \o ReplaceRuns(DropRun(text, T), T, r)
    ELSE <<Head(text)>> \o ReplaceRuns(Tail(text), T, r)

RECURSIVE Reverse(_)
Reverse(text) == IF text = <<>> THEN <<>> ELSE Reverse(Tail(text)) \o <<Head(text)>>

\* String.prototype.trim
Trim(text) == Reverse(DropRun(Reverse(DropRun(text, {" "})), {" "}))

\* slugify(text)
slugify(text) ==
    LET lower == ToLowerCase(text)
        kept == SelectSeq(lower, LAMBDA c : c \in WordChars \cup {" ", "-"})
        hyphened == ReplaceRuns(kept, {" "}, "-")
        single == ReplaceRuns(hyphened, {"-"}, "-")
    IN  Trim(single)

\* generateUniqueSlug(text): `${baseSlug}-${timestamp}`
generateUniqueSlug(text) == [base |-> slugify(text), timestamp |-> now]

\* a slug made again from the title at every validation
PreValidate_FromTitle(event) == [event EXCEPT !.slug = generateUniqueSlug(event.title)]

\* eventSchema.pre('validate')
PreValidate(event) ==
    IF event.slug = NoSlug /\ event.title # <<>>
    THEN [event EXCEPT !.slug = generateUniqueSlug(event.title)]
    ELSE event

\* document.save() of an event, stored being the document in the
\* collection: the validate hook, validation (title is required), the save
\* hook; a document that fails validation is not written
SaveEvent(stored, event) ==
    LET validated == PreValidate(event)
    IN  IF validated.title = <<>> THEN stored
        ELSE PreSave(validated, validated.status # stored.status)

\* PUT /:id (admin only) with a body of title, slug, startDate, endDate and
\* status; a field the body does not carry is Undefined, NoDate for a date
\* and "" for the status. The title is trimmed when it is set.
PutEvent(event, body) ==
    LET start == IF body.startDate # NoDate THEN body.startDate ELSE event.startDate
        end == IF body.endDate # NoDate THEN body.endDate
               ELSE IF event.endDate # NoDate THEN event.endDate
               ELSE start + DefaultEventHours
        status == IF body.status = "running"
                  THEN IF now < start THEN "upcoming"
                       ELSE IF now >= start /\ now <= end THEN "ongoing"
                       ELSE "completed"
                  ELSE body.status
        assigned == [event EXCEPT
                       !.startDate = IF body.startDate # NoDate
                                     THEN body.startDate ELSE @,
                       !.endDate = IF body.endDate # NoDate THEN body.endDate ELSE @,
                       !.status = IF status # "" THEN status ELSE @,
                       !.title = IF body.title # Undefined
                                 THEN Trim(body.title) ELSE @]
    IN  SaveEvent(event, assigned)

UpdateEvent(eventId, admin, body) ==
    /\ IsAdmin(admin)
    /\ events' = [events EXCEPT ![eventId] = PutEvent(events[eventId], body)]
    /\ UNCHANGED <<users, regs, waitlist, intents, now, inflight, feedback,
                 members, sessions, paymentHistory>>

StartDates == {0, 1, StepHours, StepHours + 1}
EndDates == {NoDate, 0, 1, StepHours, StepHours + 1}

\* events as POST / creates them: status 'upcoming' until the first save
StatusEventConfigs ==
    {[c EXCEPT !.startDate = sd, !.endDate = ed] @@ [title |-> <<"a">>, slug |-> NoSlug] :
        c \in {x \in EventConfigs :
                 /\ x.status = "upcoming" /\ x.registrationDeadline = NoDate
                 /\ x.isFree /\ ~x.requiresApproval /\ ~x.waitlistEnabled
                 /\ x.maxAttendees = 0},
        sd \in StartDates, ed \in EndDates}

EventBodies ==
    [startDate : {NoDate} \cup StartDates, endDate : EndDates,
     status : {"", "running", "cancelled"}, title : {Undefined},
     slug : {Undefined}]

StatusInit ==
    /\ users = {"A"}
    /\ now = 0
    /\ events \in [{"e1", "e2"} -> {SaveEvent(c, c) : c \in StatusEventConfigs}]
    /\ regs = {}
    /\ waitlist = {}
    /\ intents = <<>>
    /\ inflight = EmptyBag
    /\ feedback = {}
    /\ members = <<>>
    /\ sessions = <<>>
    /\ paymentHistory = <<>>

StatusNext ==
    \/ \E e \in DOMAIN events, a \in users, body \in EventBodies :
          UpdateEvent(e, a, body)
    \/ Tick

StatusSpec == StatusInit /\ [][StatusNext]_vars

(***************************************************************************)
(* Registration for an event whose dates pass: one event as it is saved   *)
(* at creation, updated by the admin, and the registrations of two users.  *)
(***************************************************************************)
OpenInit ==
    /\ users = {"A", "B"}
    /\ now = 0
    /\ events \in [{"e1"} -> {SaveEvent(c, c) : c \in StatusEventConfigs}]
    /\ regs = {}
    /\ waitlist = {}
    /\ intents = <<>>
    /\ inflight = EmptyBag
    /\ feedback = {}
    /\ members = <<>>
    /\ sessions = <<>>
    /\ paymentHistory = <<>>

OpenNext ==
    \/ \E e \in DOMAIN events, a \in users, body \in EventBodies :
          UpdateEvent(e, a, body)
    \/ \E e \in DOMAIN events, u \in users : Register(e, u)
    \/ \E e \in DOMAIN events, u \in users : CancelRegistration(e, u)
    \/ Tick

OpenSpec == OpenInit /\ [][OpenNext]_vars

(***************************************************************************)
(* Membership payments (routes/stripe.ts).  sessions are the checkout      *)
(* sessions held by Stripe, members the membership fields of the User      *)
(* documents, paymentHistory the PaymentHistory collection in insertion    *)
(* order.  A response body is a record whose fields are the keys of the    *)
(* JSON object sent.                                                       *)
(***************************************************************************)
MaxSessions == 2
MaxLedger == 3

JsonNull == [type |-> "null"]
JsonString(text) == [type |-> "string", value |-> text]
JsonObject(fields) == [type |-> "object", value |-> fields]

Tiers == {"foundation", "growth"}
\* getTierPrices()[tier].amount
TierAmount(tier) == IF tier = "foundation" THEN 495 ELSE 995

\* the answer of a stripe.ts handler: the collections as it leaves them, the
\* HTTP status and the body
MemberResult(M, S, H, code, body) ==
    [members |-> M, sessions |-> S, paymentHistory |-> H, code |-> code, body |-> body]

\* POST /create-checkout-session; tier is req.body.tier, "" when absent
PostCreateCheckoutSession(M, S, H, userId, tier) ==
    IF tier = ""
    THEN MemberResult(M, S, H, 400, [error |-> JsonString("Tier is required")])
    ELSE IF tier \notin Tiers
    THEN MemberResult(M, S, H, 400, [error |-> JsonString("Invalid tier")])
    ELSE MemberResult(M,
           Append(S, [userId |-> userId, tier |-> tier,
                      payment_status |-> "unpaid",
                      amount_total |-> TierAmount(tier) * 100,
                      payment_intent |-> Len(S) + 1]),
           H, 200,
           [data |-> JsonObject([sessionId |-> Len(S) + 1]), error |-> JsonNull])

\* the PaymentHistory row both handlers create for a session
NewPaymentHistory(userId, session) ==
    [userId |-> userId, amount |-> session.amount_total \div 100,
     status |-> "succeeded", stripePaymentIntentId |-> session.payment_intent]

\* POST /webhook with a signed checkout.session.completed event of session
\* sessionId
PostWebhook(M, S, H, sessionId) ==
    LET session == S[sessionId]
        userId == session.userId
    IN  IF userId \in DOMAIN M
        THEN MemberResult(
               [M EXCEPT ![userId].membershipStatus = "active",
                         ![userId].membershipTier =
                             IF session.tier # "" THEN session.tier ELSE @],
               S, Append(H, NewPaymentHistory(userId, session)), 200,
               [received |-> TRUE])
        ELSE MemberResult(M, S, H, 200, [received |-> TRUE])

\* POST /verify-payment; sessionId is 0 and tier is "" when the body does
\* not carry them
PostVerifyPayment(M, S, H, userId, sessionId, tier) ==
    IF sessionId = 0
    THEN MemberResult(M, S, H, 400, [error |-> JsonString("Session ID is required")])
    ELSE IF sessionId \notin DOMAIN S
    THEN MemberResult(M, S, H, 500, [error |-> JsonString("No such checkout.session")])
    ELSE LET session == S[sessionId]
         IN  IF session.payment_status # "paid"
             THEN MemberResult(M, S, H, 400,
                    [error |-> JsonString("Payment not completed"),
                     data |-> JsonObject([paymentStatus |-> session.payment_status])])
             ELSE IF session.userId # userId
             THEN MemberResult(M, S, H, 403,
                    [error |-> JsonString("Session does not belong to this user")])
             ELSE LET newTier == IF tier # "" THEN tier ELSE session.tier
                      M2 == [M EXCEPT ![userId].membershipStatus = "active",
                                      ![userId].membershipTier = newTier]
                  IN  MemberResult(M2, S,
                        Append(H, NewPaymentHistory(userId, session)), 200,
                        [data |-> JsonObject([success |-> TRUE,
                                    membershipStatus |-> "active",
                                    membershipTier |-> newTier]),
                         error |-> JsonNull])

ApplyMember(result) ==
    /\ members' = result.members
    /\ sessions' = result.sessions
    /\ paymentHistory' = result.paymentHistory
    /\ UNCHANGED <<users, events, regs, waitlist, intents, now, inflight, feedback>>

CreateCheckoutSession(userId, tier) ==
    /\ Len(sessions) < MaxSessions
    /\ ApplyMember(PostCreateCheckoutSession(members, sessions, paymentHistory,
                                             userId, tier))

\* The customer pays on the page of Stripe.
StripeCheckoutPay(sessionId) ==
    /\ sessionId \in DOMAIN sessions
    /\ sessions[sessionId].payment_status = "unpaid"
    /\ sessions' = [sessions EXCEPT ![sessionId].payment_status = "paid"]
    /\ UNCHANGED <<users, events, regs, waitlist, intents, now, inflight, feedback,
                   members, paymentHistory>>

\* Stripe delivers checkout.session.completed for a paid session; it may
\* deliver the same event more than once.
Webhook(sessionId) ==
    /\ sessionId \in DOMAIN sessions
    /\ sessions[sessionId].payment_status = "paid"
    /\ Len(paymentHistory) < MaxLedger
    /\ ApplyMember(PostWebhook(members, sessions, paymentHistory, sessionId))

VerifyPayment(userId, sessionId, tier) ==
    /\ Len(paymentHistory) < MaxLedger
    /\ ApplyMember(PostVerifyPayment(members, sessions, paymentHistory,
                                     userId, sessionId, tier))

\* tier values a request body carries: none, the tiers, and one more string
BodyTiers == {""} \cup Tiers \cup {"founding-free"}

MemberInit ==
    /\ users = {"A", "B"}
    /\ events = [e \in {} |-> 0]
    /\ regs = {}
    /\ waitlist = {}
    /\ intents = <<>>
    /\ now = 0
    /\ inflight = EmptyBag
    /\ feedback = {}
    /\ members = [u \in {"A", "B"} |->
                    [membershipTier |-> "foundation", membershipStatus |-> "pending"]]
    /\ sessions = <<>>
    /\ paymentHistory = <<>>

MemberNext ==
    \/ \E u \in users, tier \in BodyTiers : CreateCheckoutSession(u, tier)
    \/ \E sid \in 1..MaxSessions : StripeCheckoutPay(sid)
    \/ \E sid \in 1..MaxSessions : Webhook(sid)
    \/ \E u \in users, sid \in 0..MaxSessions, tier \in BodyTiers :
          VerifyPayment(u, sid, tier)

MemberSpec == MemberInit /\ [][MemberNext]_vars

\* The body the handlers of events.ts send for a result: res.json({data:
\* {message, ...}, error: null}) on success, res.status(code).json({error})
\* otherwise.
EventsBody(result) ==
    IF result.error = ""
    THEN [data |-> JsonObject([message |-> result.message]), error |-> JsonNull]
    ELSE [error |-> JsonString(result.error)]

(***************************************************************************)
(* Registration for one free event and membership payments together.       *)
(***************************************************************************)
ApiEventConfigs ==
    {c \in EventConfigs :
        /\ c.status = "upcoming" /\ c.registrationDeadline = NoDate /\ c.isFree
        /\ ~c.requiresApproval /\ ~c.waitlistEnabled /\ c.maxAttendees = MaxCapacity}

ApiInit ==
    /\ users = {"A", "B"}
    /\ events \in [{"e1"} -> ApiEventConfigs]
    /\ regs = {}
    /\ waitlist = {}
    /\ intents = <<>>
    /\ now = 0
    /\ inflight = EmptyBag
    /\ feedback = {}
    /\ members = [u \in {"A", "B"} |->
                    [membershipTier |-> "foundation", membershipStatus |-> "pending"]]
    /\ sessions = <<>>
    /\ paymentHistory = <<>>

ApiNext ==
    \/ \E e \in DOMAIN events, u \in users : Register(e, u)
    \/ \E e \in DOMAIN events, u \in users : CancelRegistration(e, u)
    \/ \E u \in users, tier \in BodyTiers : CreateCheckoutSession(u, tier)
    \/ \E sid \in 1..MaxSessions : StripeCheckoutPay(sid)
    \/ \E sid \in 1..MaxSessions : Webhook(sid)
    \/ \E u \in users, sid \in 0..MaxSessions, tier \in BodyTiers :
          VerifyPayment(u, sid, tier)

ApiSpec == ApiInit /\ [][ApiNext]_vars

(***************************************************************************)
(* The slug of an event: events are created and updated with titles drawn  *)
(* from short texts.                                                       *)
(***************************************************************************)
RECURSIVE Texts(_)
Texts(n) == IF n = 0 THEN {<<>>} ELSE Texts(n - 1) \cup {Append(t, c) : t \in Texts(n - 1), c \in Chars}
Titles == Texts(MaxTitleLen)

\* new Event({title, ...}) of POST /, before it is saved
NewEvent(title) ==
    [(CHOOSE c \in StatusEventConfigs : c.startDate = StepHours /\ c.endDate = NoDate)
        EXCEPT !.title = Trim(title)]

\* POST / (admin only): the event is stored if the save succeeds
CreateEvent(eventId, admin, title) ==
    /\ IsAdmin(admin)
    /\ eventId \notin DOMAIN events
    /\ SaveEvent(NewEvent(title), NewEvent(title)).slug # NoSlug
    /\ events' = events @@ (eventId :> SaveEvent(NewEvent(title), NewEvent(title)))
    /\ UNCHANGED <<users, regs, waitlist, intents, now, inflight, feedback,
                 members, sessions, paymentHistory>>

SlugBodies ==
    [startDate : {NoDate}, endDate : {NoDate}, status : {"", "cancelled"},
     title : {Undefined} \cup Titles, slug : {Undefined, <<"a", "-", "a">>}]

SlugInit ==
    /\ users = {"A"}
    /\ now = 0
    /\ events = [e \in {} |-> 0]
    /\ regs = {}
    /\ waitlist = {}
    /\ intents = <<>>
    /\ inflight = EmptyBag
    /\ feedback = {}
    /\ members = <<>>
    /\ sessions = <<>>
    /\ paymentHistory = <<>>

SlugNext ==
    \/ \E e \in {"e1"}, a \in users, title \in Titles : CreateEvent(e, a, title)
    \/ \E e \in DOMAIN events, a \in users, body \in SlugBodies :
          UpdateEvent(e, a, body)
    \/ Tick

SlugSpec == SlugInit /\ [][SlugNext]_vars

(***************************************************************************)
(* Password reset (routes/auth.ts).  In this part members holds the email, *)
(* password and reset token of the User documents; emails and passwords    *)
(* are texts.                                                              *)
(***************************************************************************)
MaxTokens == 2
ResetHours == 1
MinPasswordLength == 6

Email(u) == IF u = "A" THEN <<"a">> ELSE <<"a", "-">>

\* userSchema.methods.generateResetToken, token being the random bytes
generateResetToken(user, token) ==
    [user EXCEPT !.resetPasswordToken = token,
                 !.resetPasswordExpires = now + ResetHours]

\* the answer of an auth.ts handler; mail is the set of messages handed to
\* the email service
AuthResult(M, code, body, mail) ==
    [members |-> M, code |-> code, body |-> body, mail |-> mail]

\* POST /forgot-password; email is req.body.email, token the random bytes
\* drawn, mailSent whether emailService.sendPasswordResetEmail returns
PostForgotPassword(M, email, token, mailSent) ==
    LET found == {u \in DOMAIN M : M[u].email = ToLowerCase(email)}
    IN  IF email = <<>>
        THEN AuthResult(M, 400, [error |-> JsonString("Email is required")], {})
        ELSE IF found = {}
        THEN AuthResult(M, 200,
               [data |-> JsonObject([message |->
                  "If that email exists, a password reset link has been sent"]),
                error |-> JsonNull], {})
        ELSE LET u == CHOOSE x \in found : TRUE
                 M2 == [M EXCEPT ![u] = generateResetToken(M[u], token)]
             IN  IF mailSent
                 THEN AuthResult(M2, 200,
                        [data |-> JsonObject([message |-> "Password reset email sent"]),
                         error |-> JsonNull],
                        {[to |-> M[u].email, resetToken |-> token]})
                 ELSE AuthResult(M2, 500,
                        [error |-> JsonString("Failed to send password reset email")], {})

\* POST /reset-password; token is 0 and password <<>> when absent
PostResetPassword(M, token, password) ==
    LET found == {u \in DOMAIN M : /\ M[u].resetPasswordToken = token
                                   /\ M[u].resetPasswordExpires # NoDate
                                   /\ M[u].resetPasswordExpires > now}
    IN  IF token = 0 \/ password = <<>>
        THEN AuthResult(M, 400, [error |-> JsonString("Token and password are required")], {})
        ELSE IF Len(password) < MinPasswordLength
        THEN AuthResult(M, 400,
               [error |-> JsonString("Password must be at least 6 characters")], {})
        ELSE IF found = {}
        THEN AuthResult(M, 400, [error |-> JsonString("Invalid or expired reset token")], {})
        ELSE LET u == CHOOSE x \in found : TRUE
             IN  AuthResult([M EXCEPT ![u].password = password,
                                      ![u].resetPasswordToken = 0,
                                      ![u].resetPasswordExpires = NoDate],
                            200,
                            [data |-> JsonObject([message |-> "Password reset successfully"]),
                             error |-> JsonNull], {})

ApplyAuth(result) ==
    /\ members' = result.members
    /\ UNCHANGED <<users, events, regs, waitlist, intents, now, inflight, feedback,
                   sessions, paymentHistory>>

ForgotPassword(email, token, mailSent) ==
    ApplyAuth(PostForgotPassword(members, email, token, mailSent))

ResetPassword(token, password) == ApplyAuth(PostResetPassword(members, token, password))

RequestEmails == Texts(MaxTitleLen)
Passwords == {<<>>, <<"a">>, <<"a", "a", "a", "a", "a", "a">>,
              <<"A", "a", "a", "a", "a", "a", "!">>}

AuthInit ==
    /\ users = {"A", "B"}
    /\ events = [e \in {} |-> 0]
    /\ regs = {}
    /\ waitlist = {}
    /\ intents = <<>>
    /\ now = 0
    /\ inflight = EmptyBag
    /\ feedback = {}
    /\ members = [u \in {"A", "B"} |->
                    [email |-> Email(u), password |-> <<"a", "a", "a", "a", "a", "a">>,
                     resetPasswordToken |-> 0, resetPasswordExpires |-> NoDate]]
    /\ sessions = <<>>
    /\ paymentHistory = <<>>

AuthNext ==
    \/ \E email \in RequestEmails, token \in 1..MaxTokens, mailSent \in BOOLEAN :
          ForgotPassword(email, token, mailSent)
    \/ \E token \in 0..MaxTokens, password \in Passwords : ResetPassword(token, password)
    \/ Tick

AuthSpec == AuthInit /\ [][AuthNext]_vars

(***************************************************************************)
(* Check-in and feedback on two free events without a limit, one that has  *)
(* started and one that starts later.                                      *)
(***************************************************************************)
\* req.body.rating: none (0), the least and the greatest valid, one too great
Ratings == {0, 1, 5, 6}

FeedbackEventConfigs ==
    {[c EXCEPT !.startDate = d] :
        c \in {x \in EventConfigs :
                 /\ x.status = "upcoming" /\ x.registrationDeadline = NoDate
                 /\ x.isFree /\ ~x.requiresApproval /\ ~x.waitlistEnabled
                 /\ x.maxAttendees = 0},
        d \in {0, StepHours}}

FeedbackInit ==
    /\ users = {"A", "B"}
    /\ events \in {ev \in [AllEvents -> FeedbackEventConfigs] :
                      ev["e1"].startDate = 0 /\ ev["e2"].startDate = StepHours}
    /\ regs = {}
    /\ waitlist = {}
    /\ intents = <<>>
    /\ now = 0
    /\ inflight = EmptyBag
    /\ feedback = {}
    /\ members = <<>>
    /\ sessions = <<>>
    /\ paymentHistory = <<>>

FeedbackNext ==
    \/ \E e \in DOMAIN events, u \in users : Register(e, u)
    \/ \E e \in DOMAIN events, u \in users : CancelRegistration(e, u)
    \/ \E e \in DOMAIN events, u \in users : CheckIn(e, u)
    \/ \E e \in DOMAIN events, a \in users, code \in AllUsers : AdminCheckIn(e, a, code)
    \/ \E e \in DOMAIN events, u \in users, rating \in Ratings :
          SubmitFeedback(e, u, rating)
    \/ Tick

FeedbackSpec == FeedbackInit /\ [][FeedbackNext]_vars

(***************************************************************************)
(* Payments and refunds of a paid event, with and without a cancellation   *)
(* deadline.                                                               *)
(***************************************************************************)
PaidEventConfigs ==
    {c \in EventConfigs :
        /\ c.status = "upcoming" /\ c.registrationDeadline = NoDate
        /\ ~c.isFree /\ ~c.requiresApproval}

\* req.body.amount of a refund request: none (0), negative, part of the
\* price, the price, more than the price
RefundAmounts == (0 - 1)..(Price + 1)

PaymentInit ==
    /\ users = {"A", "B"}
    /\ events \in [{"e1"} -> PaidEventConfigs]
    /\ regs = {}
    /\ waitlist = {}
    /\ intents = <<>>
    /\ now = 0
    /\ inflight = EmptyBag
    /\ feedback = {}
    /\ members = <<>>
    /\ sessions = <<>>
    /\ paymentHistory = <<>>

PaymentNext ==
    \/ \E e \in DOMAIN events, u \in users : Register(e, u)
    \/ \E e \in DOMAIN events, u \in users : CancelRegistration(e, u)
    \/ \E e \in DOMAIN events :
          \E u \in users, rid \in {e} \X AllUsers \X {1} : CreatePayment(e, u, rid)
    \/ \E i \in 1..MaxIntents : StripePay(i)
    \/ \E i \in 1..MaxIntents : ConfirmPayment(i)
    \/ \E a \in users, rid \in RegistrationIds, amount \in RefundAmounts :
          Refund(a, rid, amount)
    \/ Tick

PaymentSpec == PaymentInit /\ [][PaymentNext]_vars

(***************************************************************************)
(* Requests in flight at once.  The handlers that create a document read   *)
(* the collections, await, and then save: between a request's reads and    *)
(* its save other requests run.  A request that has passed its checks is   *)
(* held in inflight until its save is done and its response is sent; a     *)
(* request that fails a check is answered at once and writes nothing.      *)
(***************************************************************************)
MaxInflight == 2

\* inflight is a bag: two requests of one user for one event are two requests
Requests == BagToSet(inflight)

NewRequest(op, eventId, userId, position) ==
    [op |-> op, eventId |-> eventId, userId |-> userId,
     position |-> position, done |-> FALSE, error |-> ""]

Accept(req) == inflight (+) SetToBag({req})

Answer(req, error) ==
    (inflight (-) SetToBag({req}))
        (+) SetToBag({[req EXCEPT !.done = TRUE, !.error = error]})

\* a save that checks the capacity again, atomically with the insert
SaveRegistration_Atomic(R, req) ==
    LET event == events[req.eventId]
    IN  IF EventFull(event, CountRegistered(R, req.eventId))
        THEN [error |-> "Event is full", rows |-> R]
        ELSE InsertDoc(R, NewRegistration(R, req.eventId, req.userId,
                "registered", IF req.op = "register" THEN "regular" ELSE "waitlist",
                IF event.isFree THEN "not_required" ELSE "pending",
                IF req.op = "register" THEN event.price ELSE 0))

\* registration.save() of the document a request built (POST /:id/register
\* and acceptOffer)
SaveRegistration(R, req) ==
    LET event == events[req.eventId]
    IN  InsertDoc(R, NewRegistration(R, req.eventId, req.userId,
            IF req.op = "register" /\ event.requiresApproval
            THEN "pending" ELSE "registered",
            IF req.op = "register" THEN "regular" ELSE "waitlist",
            IF event.isFree THEN "not_required" ELSE "pending",
            IF req.op = "register" THEN event.price ELSE 0))

\* a save that takes the position at the time of the insert
SaveWaitlistEntry_Atomic(W, req) ==
    InsertDoc(W, NewWaitlistEntry(W, req.eventId, req.userId,
                                  CountWaiting(W, req.eventId) + 1))

\* waitlistEntry.save() of the document joinWaitlist built
SaveWaitlistEntry(W, req) ==
    InsertDoc(W, NewWaitlistEntry(W, req.eventId, req.userId, req.position))

\* POST /:id/register up to its save: the new registration, or the waitlist
\* entry of a full event
BeginRegister(eventId, userId) ==
    LET result == PostRegister(Db, eventId, userId)
        joined == joinWaitlist(regs, waitlist, eventId, userId)
    IN  /\ BagCardinality(inflight) < MaxInflight
        /\ result.error = ""
        /\ result.message # "Registration reactivated successfully"
        /\ inflight' = Accept(
              IF result.code = 201
              THEN NewRequest("register", eventId, userId, 0)
              ELSE NewRequest("joinWaitlist", eventId, userId, joined.position))
        /\ UNCHANGED <<users, events, regs, waitlist, intents, now, feedback,
                 members, sessions, paymentHistory>>

\* POST /:id/waitlist up to waitlistEntry.save()
BeginJoinWaitlist(eventId, userId) ==
    LET joined == joinWaitlist(regs, waitlist, eventId, userId)
    IN  /\ BagCardinality(inflight) < MaxInflight
        /\ joined.error = ""
        /\ inflight' = Accept(NewRequest("joinWaitlist", eventId, userId,
                                         joined.position))
        /\ UNCHANGED <<users, events, regs, waitlist, intents, now, feedback,
                 members, sessions, paymentHistory>>

\* POST /:id/waitlist/accept up to registration.save()
BeginAcceptOffer(eventId, userId) ==
    /\ BagCardinality(inflight) < MaxInflight
    /\ acceptOffer(regs, waitlist, eventId, userId).error = ""
    /\ inflight' = Accept(NewRequest("acceptOffer", eventId, userId, 0))
    /\ UNCHANGED <<users, events, regs, waitlist, intents, now, feedback,
                 members, sessions, paymentHistory>>

FinishRegister(req) ==
    LET saved == SaveRegistration(regs, req)
    IN  /\ req.op = "register" /\ ~req.done
        /\ regs' = saved.rows
        /\ inflight' = Answer(req, saved.error)
        /\ UNCHANGED <<users, events, waitlist, intents, now, feedback,
                 members, sessions, paymentHistory>>

FinishJoinWaitlist(req) ==
    LET saved == SaveWaitlistEntry(waitlist, req)
    IN  /\ req.op = "joinWaitlist" /\ ~req.done
        /\ waitlist' = saved.rows
        /\ inflight' = Answer(req, saved.error)
        /\ UNCHANGED <<users, events, regs, intents, now, feedback,
                 members, sessions, paymentHistory>>

\* registration.save(), and when it succeeds waitlistEntry.save() with
\* status 'accepted' and the updateMany of the positions behind it
FinishAcceptOffer(req) ==
    LET saved == SaveRegistration(regs, req)
        offered == {w \in waitlist : /\ w.eventId = req.eventId
                                      /\ w.userId = req.userId
                                      /\ w.status = "offered"}
        waitlistEntry == CHOOSE w \in offered : TRUE
    IN  /\ req.op = "acceptOffer" /\ ~req.done
        /\ regs' = saved.rows
        /\ waitlist' = IF saved.error = "" /\ offered # {}
                       THEN DecrementAfter(
                              ReplaceDoc(waitlist, waitlistEntry,
                                [waitlistEntry EXCEPT !.status = "accepted"]),
                              req.eventId, waitlistEntry.position)
                       ELSE waitlist
        /\ inflight' = Answer(req, saved.error)
        /\ UNCHANGED <<users, events, intents, now, feedback,
                 members, sessions, paymentHistory>>

\* the response is sent
Respond(req) ==
    /\ req.done
    /\ inflight' = inflight (-) SetToBag({req})
    /\ UNCHANGED <<users, events, regs, waitlist, intents, now, feedback,
                 members, sessions, paymentHistory>>

ConcEventConfigs ==
    {c \in EventConfigs :
        /\ c.status = "upcoming" /\ c.registrationDeadline = NoDate
        /\ c.isFree /\ ~c.requiresApproval /\ c.waitlistEnabled
        /\ c.waitlistCapacity = 0}

ConcInit ==
    /\ users = {"A", "B"}
    /\ events \in [{"e1"} -> ConcEventConfigs]
    /\ regs = {}
    /\ waitlist = {}
    /\ intents = <<>>
    /\ now = 0
    /\ inflight = EmptyBag
    /\ feedback = {}
    /\ members = <<>>
    /\ sessions = <<>>
    /\ paymentHistory = <<>>

ConcNext ==
    \/ \E e \in DOMAIN events, u \in users : BeginRegister(e, u)
    \/ \E e \in DOMAIN events, u \in users : BeginJoinWaitlist(e, u)
    \/ \E e \in DOMAIN events, u \in users : BeginAcceptOffer(e, u)
    \/ \E req \in Requests : FinishRegister(req)
    \/ \E req \in Requests : FinishJoinWaitlist(req)
    \/ \E req \in Requests : FinishAcceptOffer(req)
    \/ \E req \in Requests : Respond(req)
    \/ \E e \in DOMAIN events, u \in users : CancelRegistration(e, u)
    \/ \E e \in DOMAIN events, u \in users : LeaveWaitlist(e, u)
    \/ \E e \in DOMAIN events, a \in users, u \in users : PromoteFromWaitlist(e, a, u)

ConcSpec == ConcInit /\ [][ConcNext]_vars

(***************************************************************************)
(* Properties.                                                             *)
(***************************************************************************)
WaitingRows(W, eventId) ==
    {w \in W : w.eventId = eventId /\ w.status = "waiting"}

\* C1: for every event with maxAttendees = N set, the number of
\* registrations of the event with status 'registered' never exceeds N.
C1_RegisteredWithinCapacity ==
    \A e \in DOMAIN events :
        events[e].maxAttendees # 0
            => CountRegistered(regs, e) <= events[e].maxAttendees

\* C2: for every event, the positions of its 'waiting' waitlist entries are
\* pairwise distinct and are exactly 1..(number of waiting entries).
C2_WaitingPositionsContiguous ==
    \A e \in DOMAIN events :
        /\ \A v, w \in WaitingRows(waitlist, e) : v # w => v.position # w.position
        /\ {w.position : w \in WaitingRows(waitlist, e)}
              = 1..Cardinality(WaitingRows(waitlist, e))

\* Requests that get past the checks made before the capacity check of
\* POST /:id/register: the event is open and its deadline has not passed.
RegistrationOpen(eventId) ==
    /\ events[eventId].status \notin {"completed", "cancelled"}
    /\ \/ events[eventId].registrationDeadline = NoDate
       \/ now <= events[eventId].registrationDeadline

RegistrationsOf(R, eventId, userId) ==
    {r \in R : r.eventId = eventId /\ r.userId = userId}

WaitlistEntriesOf(W, eventId, userId) ==
    {w \in W : w.eventId = eventId /\ w.userId = userId}

NoRows == [regs |-> {}, waitlist |-> {}, intents |-> <<>>]

\* The example of C4 on event e with users a and b, from no rows.
C4_Scenario(e, a, b) ==
    LET s1 == PostRegister(NoRows, e, a)
        s2 == PostRegister(s1, e, b)
        s4(s3) == PostWaitlistAccept(s3, e, b)
    IN  \* a registers: one row, 'registered'
        /\ s1.code = 201
        /\ \E r \in s1.regs :
              /\ s1.regs = {r} /\ r.userId = a /\ r.eventId = e
              /\ r.status = "registered"
        /\ s1.waitlist = {}
        \* b registers: no registration, a waitlist entry 'waiting' at 1
        /\ s2.regs = s1.regs
        /\ \E w \in s2.waitlist :
              /\ s2.waitlist = {w} /\ w.userId = b /\ w.eventId = e
              /\ w.status = "waiting" /\ w.position = 1
        \* a cancels: b's entry is 'offered'
        /\ \A s3 \in DeleteRegister(s2, e, a) :
              /\ s3.code = 200
              /\ \A r \in s3.regs : r.userId = a => r.status = "cancelled"
              /\ \E w \in s3.waitlist :
                    /\ s3.waitlist = {w} /\ w.userId = b /\ w.status = "offered"
              \* b accepts: b's registration, of type 'waitlist', 'registered';
              \* b's entry is 'accepted'
              /\ s4(s3).code = 200
              /\ \E r \in s4(s3).regs :
                    /\ RegistrationsOf(s4(s3).regs, e, b) = {r}
                    /\ r.registrationType = "waitlist" /\ r.status = "registered"
              /\ \E w \in s4(s3).waitlist :
                    /\ s4(s3).waitlist = {w} /\ w.userId = b
                    /\ w.status = "accepted"

\* C4: on an event with maxAttendees = 1 and waitlistEnabled = true (open
\* for registration, requiresApproval at its default false) and no rows:
\* A registers and is 'registered'; B's register request creates no
\* registration but a waitlist entry 'waiting' at position 1; A's cancel
\* makes B's entry 'offered'; B's acceptOffer creates B's registration with
\* registrationType 'waitlist' and status 'registered', and B's entry becomes
\* 'accepted'.
C4_Example ==
    \A e \in DOMAIN events :
        (/\ events[e].maxAttendees = 1 /\ events[e].waitlistEnabled
         /\ ~events[e].requiresApproval /\ RegistrationOpen(e))
            => \A a, b \in users : a # b => C4_Scenario(e, a, b)

\* C4 witness: the example has run to its end.
C4_Witness ==
    \E e \in DOMAIN events :
        /\ events[e].maxAttendees = 1 /\ events[e].waitlistEnabled
        /\ \E r \in regs : r.userId = "A" /\ r.status = "cancelled"
                           /\ r.registrationType = "regular"
        /\ \E r \in regs : r.userId = "B" /\ r.status = "registered"
                           /\ r.registrationType = "waitlist"
        /\ \E w \in waitlist : /\ waitlist = {w} /\ w.userId = "B"
                               /\ w.status = "accepted" /\ w.position = 1

\* C5: no registration of a non-free event has status 'registered' while its
\* paymentStatus is not 'completed'.
C5_RegisteredOnlyWhenPaid ==
    \A r \in regs :
        (~events[r.eventId].isFree /\ r.status = "registered")
            => r.paymentStatus = "completed"

\* The user holds a live waitlist entry (waiting or offered) of the event.
HoldsLiveWaitlistEntry(eventId, userId) ==
    \E w \in WaitlistEntriesOf(waitlist, eventId, userId) :
        w.status \in {"waiting", "offered"}

\* The user holds a live registration (pending or registered) of the event.
HoldsLiveRegistration(eventId, userId) ==
    \E r \in RegistrationsOf(regs, eventId, userId) :
        r.status \in {"pending", "registered"}

WaitlistAtCapacity(eventId) ==
    /\ events[eventId].waitlistCapacity # 0
    /\ CountWaiting(waitlist, eventId) >= events[eventId].waitlistCapacity

\* C6: joinWaitlist is rejected, creating and changing no row, whenever the
\* event has waitlistEnabled = false or the user holds a live waitlist entry
\* or a live registration; otherwise, the waitlist not being at capacity, the
\* new entry is stored 'waiting' at position count(waiting) + 1.
C6_JoinRejectedOrAppended ==
    \A e \in DOMAIN events, u \in users :
        LET res == PostWaitlist(Db, e, u)
        IN  IF \/ ~events[e].waitlistEnabled
               \/ HoldsLiveWaitlistEntry(e, u)
               \/ HoldsLiveRegistration(e, u)
            THEN /\ res.code = 400
                 /\ res.regs = regs /\ res.waitlist = waitlist
                 /\ res.intents = intents
            ELSE ~WaitlistAtCapacity(e)
                    => /\ res.code = 201
                       /\ res.regs = regs /\ res.intents = intents
                       /\ \E w \in res.waitlist :
                             /\ res.waitlist = waitlist \cup {w}
                             /\ w \notin waitlist
                             /\ w.eventId = e /\ w.userId = u
                             /\ w.status = "waiting"
                             /\ w.position = CountWaiting(waitlist, e) + 1

\* C7: on an event with waitlistCapacity = C set, the number of 'waiting'
\* entries never exceeds C, and once C entries are waiting every joinWaitlist
\* is rejected and stores nothing, with 'Waitlist is full' when the request
\* gets as far as the capacity check.
C7_WaitlistWithinCapacity ==
    \A e \in DOMAIN events :
        events[e].waitlistCapacity # 0
            => /\ CountWaiting(waitlist, e) <= events[e].waitlistCapacity
               /\ CountWaiting(waitlist, e) >= events[e].waitlistCapacity
                    => \A u \in users :
                          LET res == PostWaitlist(Db, e, u)
                          IN  /\ res.code = 400
                              /\ res.waitlist = waitlist
                              /\ (/\ events[e].waitlistEnabled
                                  /\ WaitlistEntriesOf(waitlist, e, u) = {}
                                  /\ ~\E r \in RegistrationsOf(regs, e, u) :
                                        r.status = "registered")
                                    => res.error = "Waitlist is full"

\* C7 witness: a waitlist at its capacity, where a further user is turned
\* away with 'Waitlist is full'.
C7_Witness ==
    \E e \in DOMAIN events, u \in users :
        /\ events[e].waitlistCapacity # 0
        /\ CountWaiting(waitlist, e) = events[e].waitlistCapacity
        /\ WaitlistEntriesOf(waitlist, e, u) = {}
        /\ PostWaitlist(Db, e, u).error = "Waitlist is full"

\* C8: when the registered count has reached maxAttendees, a register request
\* of a user without a registration row creates no EventRegistration; a
\* request that gets as far as the capacity check is, with waitlistEnabled,
\* answered by what joinWaitlist does for that user, and otherwise rejected
\* with 400, no row of any collection changing.
C8_FullEventCreatesNoRegistration ==
    \A e \in DOMAIN events, u \in users :
        (/\ events[e].maxAttendees # 0
         /\ CountRegistered(regs, e) >= events[e].maxAttendees
         /\ RegistrationsOf(regs, e, u) = {})
            => LET res == PostRegister(Db, e, u)
                   joined == joinWaitlist(regs, waitlist, e, u)
               IN  /\ res.regs = regs
                   /\ res.intents = intents
                   /\ RegistrationOpen(e)
                        => IF events[e].waitlistEnabled
                           THEN /\ res.waitlist = joined.waitlist
                                /\ res.error = joined.error
                                /\ res.code = IF joined.error = "" THEN 200 ELSE 400
                           ELSE /\ res.code = 400
                                /\ res.waitlist = waitlist

\* C8 witness: a full event and a user without a registration row, whose
\* register request is possible both with and without a waitlist.
C8_Witness ==
    \E e \in DOMAIN events, u \in users :
        /\ events[e].maxAttendees # 0
        /\ CountRegistered(regs, e) >= events[e].maxAttendees
        /\ RegistrationsOf(regs, e, u) = {}
        /\ RegistrationOpen(e)
        /\ ~events[e].waitlistEnabled
        /\ PostRegister(Db, e, u).error = "Event is full and waitlist is not available"

\* C10: promoteFromWaitlist of a user whose entry is 'waiting', while the
\* registered count is below maxAttendees, makes that entry 'offered' with
\* notified = true and expiresAt = now + 24 hours and changes nothing else;
\* when the event is still full or the user has no 'waiting' entry it fails
\* and leaves every row unchanged.
C10_PromoteOffersOrFails ==
    \A e \in DOMAIN events, a \in users, u \in users :
        IsAdmin(a) =>
        LET res == PostWaitlistPromote(Db, e, a, u)
            mine == {w \in WaitlistEntriesOf(waitlist, e, u) : w.status = "waiting"}
            full == /\ events[e].maxAttendees # 0
                    /\ CountRegistered(regs, e) >= events[e].maxAttendees
        IN  /\ res.regs = regs /\ res.intents = intents
            /\ IF mine = {} \/ full
               THEN /\ res.code = 400
                    /\ res.error = IF mine = {} THEN "User not on waitlist"
                                   ELSE "Event is still full"
                    /\ res.waitlist = waitlist
               ELSE /\ res.code = 200
                    /\ \E w \in mine, o \in res.waitlist :
                          /\ res.waitlist = (waitlist \ {w}) \cup {o}
                          /\ o.status = "offered" /\ o.notified
                          /\ o.expiresAt = now + 24
                          /\ o.eventId = w.eventId /\ o.userId = w.userId
                          /\ o.position = w.position /\ o.id = w.id

\* C10 witness: an offer just made on an event with a free place, and a
\* promotion refused because the event is full.
C10_Witness ==
    \E e \in DOMAIN events :
        /\ events[e].maxAttendees # 0
        /\ \E o \in waitlist :
              /\ o.eventId = e /\ o.status = "offered" /\ o.notified
              /\ o.expiresAt = now + 24
              /\ CountRegistered(regs, e) < events[e].maxAttendees

\* C10 witness of the refusal: a waiting user of a full event.
C10_WitnessFull ==
    \E e \in DOMAIN events, u \in users :
        /\ CountRegistered(regs, e) >= events[e].maxAttendees
        /\ events[e].maxAttendees # 0
        /\ \E w \in WaitlistEntriesOf(waitlist, e, u) : w.status = "waiting"
        /\ promoteFromWaitlist(regs, waitlist, e, u).error = "Event is still full"

\* C3: every (eventId, userId) pair has at most one EventRegistration row and
\* at most one EventWaitlist row in every state reached by requests that
\* interleave between their reads and their save, and the save of a request
\* whose pair already has a row fails with the duplicate key error and
\* leaves the collection as it is.
C3_OneRowPerPair ==
    /\ \A e \in DOMAIN events, u \in users :
          /\ Cardinality(RegistrationsOf(regs, e, u)) <= 1
          /\ Cardinality(WaitlistEntriesOf(waitlist, e, u)) <= 1
    /\ \A req \in Requests :
          /\ (/\ ~req.done /\ req.op \in {"register", "acceptOffer"}
              /\ RegistrationsOf(regs, req.eventId, req.userId) # {})
                => /\ SaveRegistration(regs, req).error = "E11000 duplicate key error"
                   /\ SaveRegistration(regs, req).rows = regs
          /\ (/\ ~req.done /\ req.op = "joinWaitlist"
              /\ WaitlistEntriesOf(waitlist, req.eventId, req.userId) # {})
                => /\ SaveWaitlistEntry(waitlist, req).error = "E11000 duplicate key error"
                   /\ SaveWaitlistEntry(waitlist, req).rows = waitlist

\* Two requests of one user passed their checks together; the second save
\* was refused and the pair has its one row.
C3_Witness ==
    \E req \in Requests :
        /\ req.done /\ req.error = "E11000 duplicate key error"
        /\ \/ /\ req.op = "register"
              /\ Cardinality(RegistrationsOf(regs, req.eventId, req.userId)) = 1
           \/ /\ req.op = "joinWaitlist"
              /\ Cardinality(WaitlistEntriesOf(waitlist, req.eventId, req.userId)) = 1

\* C9: leaveWaitlist of a user with a 'waiting' row at position p removes
\* that row, decrements by exactly 1 the position of every 'waiting' row of
\* the same event with a position above p, and leaves every other row
\* (other events, lower positions, rows not 'waiting') and the other
\* collections as they are; a user without a 'waiting' row gets
\* 'Not on waitlist' and nothing changes.
C9_LeaveWaitlistFrame ==
    \A e \in DOMAIN events, u \in users :
        LET mine == {w \in waitlist : /\ w.eventId = e /\ w.userId = u
                                       /\ w.status = "waiting"}
            result == DeleteWaitlist(Db, e, u)
        IN  /\ result.regs = regs /\ result.intents = intents
            /\ mine = {} => /\ result.error = "Not on waitlist"
                            /\ result.waitlist = waitlist
            /\ \A m \in mine :
                  /\ result.error = ""
                  /\ WaitlistEntriesOf(result.waitlist, e, u) = {}
                  /\ Cardinality(result.waitlist) = Cardinality(waitlist) - 1
                  /\ \A w \in waitlist \ {m} :
                        IF w.eventId = e /\ w.status = "waiting"
                           /\ w.position > m.position
                        THEN [id |-> w.id, eventId |-> w.eventId,
                              userId |-> w.userId, position |-> w.position - 1,
                              status |-> w.status, notified |-> w.notified,
                              expiresAt |-> w.expiresAt] \in result.waitlist
                        ELSE w \in result.waitlist

\* A user leaves from position 2 with a 'waiting' row behind, an 'offered'
\* row before, and a row of another event at a higher position.
C9_Witness ==
    \E e \in DOMAIN events, f \in DOMAIN events, u \in users :
        /\ e # f
        /\ DeleteWaitlist(Db, e, u).error = ""
        /\ \E m \in WaitingRows(waitlist, e) :
              /\ m.userId = u
              /\ \E w \in WaitingRows(waitlist, e) : w.position > m.position
              /\ \E w \in waitlist : /\ w.eventId = e /\ w.status # "waiting"
                                      /\ w.position < m.position
              /\ \E w \in WaitingRows(waitlist, f) : w.position > m.position
              /\ DeleteWaitlist(Db, e, u).waitlist # waitlist \ {m}

\* The user's 'offered' entry of the event that has not expired.
LiveOffers(eventId, userId) ==
    {w \in WaitlistEntriesOf(waitlist, eventId, userId) :
        /\ w.status = "offered"
        /\ (w.expiresAt = NoDate \/ now <= w.expiresAt)}

\* C11: acceptOffer by a user whose entry is 'offered' and not expired, while
\* the registered count is below maxAttendees, creates that user's
\* registration with status 'registered' and registrationType 'waitlist',
\* sets the entry to 'accepted' and decrements the position of the 'waiting'
\* entries behind it, whatever the user's earlier history on the event.
C11_AcceptOfferRegisters ==
    \A e \in DOMAIN events, u \in users :
        \A offer \in LiveOffers(e, u) :
            ~(events[e].maxAttendees # 0
              /\ CountRegistered(regs, e) >= events[e].maxAttendees)
            => LET res == PostWaitlistAccept(Db, e, u)
               IN  /\ res.code = 200
                   /\ \E r \in res.regs :
                         /\ r.eventId = e /\ r.userId = u
                         /\ r.status = "registered"
                         /\ r.registrationType = "waitlist"
                   /\ \E w \in res.waitlist :
                         /\ w.eventId = e /\ w.userId = u
                         /\ w.status = "accepted"
                   /\ \A w \in WaitingRows(waitlist, e) :
                         \E v \in WaitingRows(res.waitlist, e) :
                            /\ v.userId = w.userId
                            /\ v.position = IF w.position > offer.position
                                            THEN w.position - 1 ELSE w.position

\* C12: an offer lasts 24 hours: every 'offered' entry carries its expiresAt,
\* and an acceptOffer issued after it creates no registration, sets the
\* entry to 'expired' and fails with 'Offer has expired'; a later acceptOffer
\* of the same user fails with 'No active offer found' and changes nothing.
C12_ExpiredOfferNeverRegisters ==
    \A w \in waitlist :
        w.status = "offered" =>
            /\ w.expiresAt # NoDate
            /\ now > w.expiresAt =>
                  LET res == PostWaitlistAccept(Db, w.eventId, w.userId)
                      again == PostWaitlistAccept(res, w.eventId, w.userId)
                  IN  /\ res.code = 400 /\ res.error = "Offer has expired"
                      /\ res.regs = regs /\ res.intents = intents
                      /\ \E x \in res.waitlist :
                            /\ res.waitlist = (waitlist \ {w}) \cup {x}
                            /\ x.status = "expired"
                            /\ x.userId = w.userId /\ x.eventId = w.eventId
                            /\ x.position = w.position /\ x.expiresAt = w.expiresAt
                      /\ again.code = 400 /\ again.error = "No active offer found"
                      /\ again.regs = regs /\ again.waitlist = res.waitlist

\* C12 witness: an offer accepted too late is 'expired', its user has no
\* registration from it, and a further acceptOffer finds no offer.
C12_Witness ==
    \E w \in waitlist :
        /\ w.status = "expired" /\ now > w.expiresAt
        /\ RegistrationsOf(regs, w.eventId, w.userId) = {}
        /\ PostWaitlistAccept(Db, w.eventId, w.userId).error = "No active offer found"

\* C13: when a user with a 'registered' row cancels on an event with
\* waitlistEnabled = true and at least one 'waiting' entry, then when the
\* request completes the 'waiting' entry with the smallest position is
\* 'offered' and no other entry has changed status.
C13_CancelOffersEarliest ==
    \A e \in DOMAIN events, u \in users :
        (/\ \E r \in RegistrationsOf(regs, e, u) : r.status = "registered"
         /\ events[e].waitlistEnabled
         /\ WaitingRows(waitlist, e) # {})
            => \A res \in DeleteRegister(Db, e, u) :
                  \E first \in NextInLine(waitlist, e) :
                     /\ \E o \in res.waitlist :
                           /\ o.eventId = e /\ o.userId = first.userId
                           /\ o.status = "offered"
                     /\ \A w \in waitlist \ {first} :
                           \E x \in res.waitlist :
                              /\ x.eventId = w.eventId /\ x.userId = w.userId
                              /\ x.status = w.status

\* C14: a refund request is rejected when the event has a cancellationDeadline
\* and the time is past it, or when the registration's paymentStatus is not
\* 'completed'; every rejected request issues no refund at the payment
\* processor and leaves the registration's paymentStatus, refundAmount and
\* refundedAt (and every other row) as they are; a request that succeeds
\* leaves the registration's paymentStatus 'refunded'.
C14_RefundRejectedOrRefunded ==
    \A rid \in RegistrationIds, amount \in RefundAmounts, a \in users :
        IsAdmin(a) =>
        LET res == PostRefund(Db, a, rid, amount)
            mine == {r \in regs : RegistrationId(r) = rid}
        IN  /\ \A r \in mine :
                  (\/ /\ events[r.eventId].cancellationDeadline # NoDate
                      /\ now > events[r.eventId].cancellationDeadline
                   \/ r.paymentStatus # "completed")
                     => res.code = 400
            /\ res.code # 200
                  => /\ res.intents = intents
                     /\ res.regs = regs /\ res.waitlist = waitlist
            /\ res.code = 200
                  => \E r \in mine, x \in res.regs :
                        /\ res.regs = (regs \ {r}) \cup {x}
                        /\ RegistrationId(x) = rid
                        /\ x.paymentStatus = "refunded"
                        /\ x.refundedAt = now
                        /\ x.refundAmount > 0
                        /\ x.status = r.status
                        /\ res.intents[r.stripePaymentIntentId].amountRefunded
                             = intents[r.stripePaymentIntentId].amountRefunded
                               + x.refundAmount

\* C14 witness: a refund made before the deadline; past the deadline a
\* further request for that registration is rejected.
C14_Witness ==
    \E r \in regs :
        /\ r.paymentStatus = "refunded" /\ r.refundedAt # NoDate
        /\ r.refundAmount > 0
        /\ intents[r.stripePaymentIntentId].amountRefunded = r.refundAmount
        /\ events[r.eventId].cancellationDeadline # NoDate
        /\ now > events[r.eventId].cancellationDeadline
        /\ PostRefund(Db, "A", RegistrationId(r), 0).code = 400

\* C14 witness of the deadline: a completed payment whose refund is refused
\* only because the deadline has passed.
C14_WitnessDeadline ==
    \E r \in regs :
        /\ r.paymentStatus = "completed"
        /\ PostRefund(Db, "A", RegistrationId(r), 0).error
              = "Past cancellation deadline. Refunds are not available."

\* C15: a cancel request on a 'registered' row always completes: the row is
\* 'cancelled' and the response is 200, also when the refund attempt or the
\* waitlist promotion fails; refundProcessed is true exactly when a refund
\* was made, and a failed refund leaves paymentStatus 'completed'.
C15_CancelAlwaysCompletes ==
    \A e \in DOMAIN events, u \in users :
        \A r \in RegistrationsOf(regs, e, u) :
            r.status = "registered" =>
            \A res \in DeleteRegister(Db, e, u) :
                LET refunded == res.intents # intents
                IN  /\ res.code = 200 /\ res.error = ""
                    /\ \E x \in res.regs :
                          /\ res.regs = (regs \ {r}) \cup {x}
                          /\ RegistrationId(x) = RegistrationId(r)
                          /\ x.status = "cancelled"
                          /\ x.paymentStatus = IF refunded THEN "refunded"
                                               ELSE r.paymentStatus
                          /\ refunded => r.paymentStatus = "completed"
                                          /\ x.refundAmount = r.paymentAmount
                    /\ res.message =
                          IF refunded
                          THEN "Registration cancelled successfully, refundProcessed: true"
                          ELSE "Registration cancelled successfully, refundProcessed: false"

\* C15 witness: a registration cancelled past the deadline: the refund was
\* refused, the row is 'cancelled' and its payment still 'completed'.
C15_Witness ==
    \E r \in regs :
        /\ r.status = "cancelled" /\ r.paymentStatus = "completed"
        /\ r.stripePaymentIntentId # 0
        /\ intents[r.stripePaymentIntentId].amountRefunded = 0
        /\ now > events[r.eventId].cancellationDeadline
        /\ events[r.eventId].cancellationDeadline # NoDate

\* C15 witness of the promotion: a cancel whose promotion of the next in
\* line is refused because the event is still full.
C15_WitnessPromotion ==
    \E e \in DOMAIN events, u \in users, n \in waitlist :
        /\ \E r \in RegistrationsOf(regs, e, u) : r.status = "registered"
        /\ events[e].waitlistEnabled
        /\ n \in NextInLine(waitlist, e)
        /\ \A res \in DeleteRegister(Db, e, u) : res.waitlist = waitlist

\* Requests of the given kind that have passed their checks and not saved.
Pending(op) == {req \in Requests : req.op = op /\ ~req.done}

\* C16: register is not atomic: when the register requests of two different
\* users have both passed the capacity check of an event with
\* maxAttendees = N and N-1 registered rows, both saves succeed and leave
\* N+1 'registered' rows.
C16_RegisterRace ==
    \A p \in Pending("register"), q \in Pending("register") :
        (/\ p.userId # q.userId /\ p.eventId = q.eventId
         /\ events[p.eventId].maxAttendees # 0
         /\ CountRegistered(regs, p.eventId) = events[p.eventId].maxAttendees - 1
         /\ RegistrationsOf(regs, p.eventId, p.userId) = {}
         /\ RegistrationsOf(regs, q.eventId, q.userId) = {})
            => LET first == SaveRegistration(regs, p)
                   second == SaveRegistration(first.rows, q)
               IN  /\ first.error = "" /\ second.error = ""
                   /\ CountRegistered(second.rows, p.eventId)
                        = events[p.eventId].maxAttendees + 1

\* C16 witness: both requests have saved; the event holds one 'registered'
\* row more than maxAttendees.
C16_Witness ==
    \E p \in Requests, q \in Requests :
        /\ p.op = "register" /\ q.op = "register"
        /\ p.done /\ q.done /\ p.error = "" /\ q.error = ""
        /\ p.userId # q.userId /\ p.eventId = q.eventId
        /\ events[p.eventId].maxAttendees # 0
        /\ CountRegistered(regs, p.eventId) = events[p.eventId].maxAttendees + 1

\* C17: joinWaitlist is not atomic: when the joinWaitlist requests of two
\* different users of one event have both counted the same 'waiting' rows,
\* both saves succeed and two 'waiting' rows of the event share a position.
C17_JoinWaitlistRace ==
    \A p \in Pending("joinWaitlist"), q \in Pending("joinWaitlist") :
        (/\ p.userId # q.userId /\ p.eventId = q.eventId
         /\ p.position = q.position
         /\ WaitlistEntriesOf(waitlist, p.eventId, p.userId) = {}
         /\ WaitlistEntriesOf(waitlist, q.eventId, q.userId) = {})
            => LET first == SaveWaitlistEntry(waitlist, p)
                   second == SaveWaitlistEntry(first.rows, q)
               IN  /\ first.error = "" /\ second.error = ""
                   /\ \E v \in WaitingRows(second.rows, p.eventId),
                         w \in WaitingRows(second.rows, p.eventId) :
                         /\ v.userId = p.userId /\ w.userId = q.userId
                         /\ v.position = w.position

\* C17 witness: both requests have saved; their two 'waiting' rows hold the
\* same position.
C17_Witness ==
    \E p \in Requests, q \in Requests :
        /\ p.op = "joinWaitlist" /\ q.op = "joinWaitlist"
        /\ p.done /\ q.done /\ p.error = "" /\ q.error = ""
        /\ p.userId # q.userId /\ p.eventId = q.eventId
        /\ \E v \in WaitingRows(waitlist, p.eventId),
              w \in WaitingRows(waitlist, p.eventId) :
              /\ v.userId = p.userId /\ w.userId = q.userId
              /\ v.position = w.position /\ v.position = p.position

FeedbackOf(F, eventId, userId) ==
    {f \in F : f.eventId = eventId /\ f.userId = userId}

\* C18: a feedback submission with a valid rating by a user who has no
\* registration of that event with checkedIn = true is rejected with 403 and
\* creates no feedback, in every state reached by register, cancel and
\* check-in requests.
C18_FeedbackNeedsCheckIn ==
    \A e \in DOMAIN events, u \in users, rating \in 1..5 :
        (~\E r \in RegistrationsOf(regs, e, u) : r.checkedIn)
            => LET res == PostFeedback(regs, feedback, e, u, rating)
               IN  /\ res.code = 403
                   /\ res.feedback = feedback
                   /\ FeedbackOf(feedback, e, u) = {}

\* C18 witness: a user checked in at one event, with feedback there, and
\* registered but not checked in at another, where feedback is refused.
C18_Witness ==
    \E e \in DOMAIN events, f \in DOMAIN events, u \in users :
        /\ e # f
        /\ \E r \in RegistrationsOf(regs, f, u) : r.checkedIn
        /\ FeedbackOf(feedback, f, u) # {}
        /\ \E r \in RegistrationsOf(regs, e, u) :
              r.status = "registered" /\ ~r.checkedIn
        /\ PostFeedback(regs, feedback, e, u, 5).code = 403

\* C19: there is at most one feedback per (event, user): the first
\* submission after check-in creates it, and every later submission of the
\* same user for the same event is rejected with 400 and leaves it unchanged.
C19_OneFeedbackPerUser ==
    \A e \in DOMAIN events, u \in users :
        /\ Cardinality(FeedbackOf(feedback, e, u)) <= 1
        /\ \A rating \in 1..5 :
              LET res == PostFeedback(regs, feedback, e, u, rating)
              IN  /\ (/\ FeedbackOf(feedback, e, u) = {}
                       /\ \E r \in RegistrationsOf(regs, e, u) : r.checkedIn)
                         => /\ res.code = 201
                            /\ \E x \in res.feedback :
                                  /\ res.feedback = feedback \cup {x}
                                  /\ x \notin feedback
                                  /\ x.eventId = e /\ x.userId = u
                                  /\ x.rating = rating
                  /\ FeedbackOf(feedback, e, u) # {}
                         => /\ res.code = 400
                            /\ res.error = "Feedback already submitted for this event"
                            /\ res.feedback = feedback

\* C19 witness: a user's feedback is stored and a further submission with
\* another rating is refused.
C19_Witness ==
    \E x \in feedback :
        /\ x.rating = 5
        /\ PostFeedback(regs, feedback, x.eventId, x.userId, 1).code = 400
        /\ \E y \in feedback : y.eventId # x.eventId /\ y.userId = x.userId

\* C20: the status GET /events and GET /events/:id return for an event is a
\* function of the time, startDate, endDate and whether the stored status is
\* 'cancelled': 'cancelled' if so; otherwise 'upcoming' if now < startDate,
\* else 'ongoing' if now <= endDate, else 'completed', a missing endDate
\* being startDate + 24 hours.
C20_StatusFromDates ==
    \A e \in DOMAIN events :
        LET ev == events[e]
            end == IF ev.endDate = NoDate THEN ev.startDate + 24 ELSE ev.endDate
        IN  calculateEventStatus(ev) =
               IF ev.status = "cancelled" THEN "cancelled"
               ELSE IF now < ev.startDate THEN "upcoming"
               ELSE IF now <= end THEN "ongoing"
               ELSE "completed"

\* C20 witness: an event without endDate whose stored status is still
\* 'ongoing' is read more than 24 hours after its start: the status returned
\* is 'completed'.
C20_Witness ==
    \E e \in DOMAIN events :
        /\ events[e].status = "ongoing" /\ events[e].endDate = NoDate
        /\ now > events[e].startDate + 24
        /\ calculateEventStatus(events[e]) = "completed"

\* C21: the slug of an event is set when the event is created and no later
\* request changes it: in every step an event that exists keeps its slug,
\* whatever title or slug field an update carries, and a stored event
\* always has a slug.
C21_SlugImmutable ==
    [][\A e \in DOMAIN events' :
          /\ events'[e].slug # NoSlug
          /\ e \in DOMAIN events => events'[e].slug = events[e].slug]_vars

\* C21 witness: an event whose title was changed after its creation, so
\* that the slug is no longer the one its present title would give.
C21_Witness ==
    \E e \in DOMAIN events :
        /\ events[e].slug # NoSlug
        /\ events[e].slug.base # slugify(events[e].title)

\* the PaymentHistory rows of a checkout session
LedgerRows(sessionId) ==
    {i \in DOMAIN paymentHistory :
        paymentHistory[i].stripePaymentIntentId = sessions[sessionId].payment_intent}

\* C22: a paid membership checkout session never has more than one
\* PaymentHistory row, whatever webhook deliveries and verify-payment calls
\* were made for it.
C22_OneLedgerRowPerSession ==
    \A sid \in DOMAIN sessions :
        sessions[sid].payment_status = "paid" => Cardinality(LedgerRows(sid)) <= 1

\* C25: after a successful verify-payment the user's membershipTier is the
\* tier recorded in the paid checkout session, whatever tier the request
\* body carries.
C25_TierIsThePaidTier ==
    \A u \in users, sid \in DOMAIN sessions, tier \in BodyTiers :
        LET res == PostVerifyPayment(members, sessions, paymentHistory, u, sid, tier)
        IN  res.code = 200 => res.members[u].membershipTier = sessions[sid].tier

\* C24: the forgot-password endpoint gives the same HTTP status and the same
\* body for an email that belongs to a user and for one that does not.
C24_ForgotPasswordHidesAccounts ==
    \A e1, e2 \in RequestEmails \ {<<>>}, token \in 1..MaxTokens, mailSent \in BOOLEAN :
        LET r1 == PostForgotPassword(members, e1, token, mailSent)
            r2 == PostForgotPassword(members, e2, token, mailSent)
        IN  r1.code = r2.code /\ r1.body = r2.body

\* a body with a data field and an error field, exactly one of them null
Wrapped(body) ==
    /\ {"data", "error"} \subseteq DOMAIN body
    /\ (body.data = JsonNull) # (body.error = JsonNull)

\* C23: every response body the handlers produce, success or failure,
\* carries both a data field and an error field, exactly one of them
\* non-null: checked on the answers of register, of the Stripe webhook and
\* of verify-payment to every request.
C23_ResponsesWrapped ==
    /\ \A e \in DOMAIN events, u \in users :
          Wrapped(EventsBody(PostRegister(Db, e, u)))
    /\ \A sid \in DOMAIN sessions :
          sessions[sid].payment_status = "paid" =>
             Wrapped(PostWebhook(members, sessions, paymentHistory, sid).body)
    /\ \A u \in users, sid \in 0..MaxSessions, tier \in BodyTiers :
          Wrapped(PostVerifyPayment(members, sessions, paymentHistory, u, sid, tier).body)

\* the 'offered' waitlist entries of the event that have not expired
OfferedRows(W, eventId) ==
    {w \in W : w.eventId = eventId /\ w.status = "offered" /\ ~OfferExpired(w)}

\* C26: for an event with maxAttendees set, the 'registered' rows plus the
\* waitlist rows in status 'offered' (not yet accepted or expired) never
\* exceed maxAttendees.
C26_OfferedSlotsReserved ==
    \A e \in DOMAIN events :
        events[e].maxAttendees # 0 =>
            CountRegistered(regs, e) + Cardinality(OfferedRows(waitlist, e))
                <= events[e].maxAttendees

\* C27: no user has, for the same event, both a registration with status
\* 'registered' and a waitlist row with status 'waiting' or 'offered'.
C27_RegisteredNotOnWaitlist ==
    \A r \in regs, w \in waitlist :
        (r.eventId = w.eventId /\ r.userId = w.userId /\ r.status = "registered")
            => w.status \notin {"waiting", "offered"}

\* the registration r is still 'cancelled' in the result of a handler
StaysCancelled(result, r) ==
    \A x \in result.regs : RegistrationId(x) = RegistrationId(r) => x.status = "cancelled"

\* C28: a registration whose status is 'cancelled' leaves that status only
\* through its owner's register request: confirmPayment with any payment
\* intent, and every other request, leaves it 'cancelled'.
C28_CancelledStaysCancelled ==
    \A r \in regs :
        r.status = "cancelled" =>
            /\ \A i \in 1..MaxIntents : StaysCancelled(PostPaymentConfirm(Db, i), r)
            /\ \A e \in DOMAIN events, u \in users :
                  /\ u # r.userId => StaysCancelled(PostRegister(Db, e, u), r)
                  /\ \A res \in DeleteRegister(Db, e, u) : StaysCancelled(res, r)
                  /\ StaysCancelled(PostWaitlist(Db, e, u), r)
                  /\ StaysCancelled(DeleteWaitlist(Db, e, u), r)
                  /\ StaysCancelled(PostWaitlistAccept(Db, e, u), r)
                  /\ StaysCancelled(PostPayment(Db, e, u, RegistrationId(r)), r)

\* C29: a payment is refunded at most once: while a registration is
\* 'refunded', every further refund request is rejected, and confirmPayment
\* with its payment intent, already refunded, leaves paymentStatus
\* 'refunded'.
C29_RefundedStaysRefunded ==
    \A r \in regs :
        (/\ r.paymentStatus = "refunded"
         /\ r.stripePaymentIntentId \in DOMAIN intents
         /\ intents[r.stripePaymentIntentId].amountRefunded > 0)
        => /\ \A a \in users, amount \in RefundAmounts :
                PostRefund(Db, a, RegistrationId(r), amount).code # 200
           /\ \A x \in PostPaymentConfirm(Db, r.stripePaymentIntentId).regs :
                RegistrationId(x) = RegistrationId(r) => x.paymentStatus = "refunded"

\* C30: a register request is answered 400, and creates or reactivates no
\* registration, whenever the status of the event computed at request time
\* from the dates and the cancelled flag is 'completed' or 'cancelled'.
C30_NoRegistrationWhenOver ==
    \A e \in DOMAIN events, u \in users :
        calculateEventStatus(events[e]) \in {"completed", "cancelled"}
            => /\ PostRegister(Db, e, u).code = 400
               /\ PostRegister(Db, e, u).regs = regs

====
